---- MODULE Spec2Model ----
(***************************************************************************)
(* The workspace coordination engine of multi_agent_mcp                    *)
(* (src/multi_agent_mcp/workspace/manager.py): one WorkspaceManager        *)
(* instance on one asyncio event loop.  Every agent runs one operation at  *)
(* a time; an operation is cut into the segments between its suspension    *)
(* points (the awaits on aiofiles), and segments of different agents and   *)
(* of the file system watcher interleave freely.                           *)
(***************************************************************************)
EXTENDS Integers, Sequences, FiniteSets, TLC

(* ------------------------------ bounds -------------------------------- *)

\* Calls (acquire_file, release_file, read_file, write_file) started in a run of Spec.
MaxOps == 2

\* Calls started in a run of SpecLock.
MaxLockOps == 4

\* Calls started in a run of SpecSeq.
MaxSeqOps == 2

\* Modifications of workspace files made behind the manager's back.
MaxExternal == 1

\* I/O failures the environment injects in a run.
MaxFaults == 1

\* Calls started in a run of SpecPaths.
MaxPathOps == 3

\* The largest limit _get_recent_events is asked for.
MaxLimit == 2

\* acquire_file and release_file calls started in a run of SpecSnap.
MaxSnapOps == 2

\* Calls started in a run of SpecHist.
MaxHistOps == 4
MaxViewOps == 3
MaxTruncOps == 4
MaxReentOps == 4
MaxAskOps == 3
MaxCtxOps == 2

(* ----------------------------- constants ------------------------------ *)

\* AgentType
Agents == {"claude", "gemini", "human"}

NoAgent == "none"

\* The task of the server's shutdown handler, which saves the workspace state.
Server == "server"

\* The tasks that call the manager: one per agent, and the server's.
Tasks == Agents \cup {Server}

External == "external"

\* FileState
AVAILABLE == "available"

LOCKED_READ == "locked_read"

LOCKED_WRITE == "locked_write"

MODIFIED == "modified"

CONFLICT == "conflict"

FileState == {AVAILABLE, LOCKED_READ, LOCKED_WRITE, MODIFIED, CONFLICT}

\* Workspace-relative paths the manager may track: two files of the same name in
\* different directories.
Paths == {"shared/notes.md", "tasks/notes.md"}

\* The path the calls of Spec, SpecLock and SpecSeq are about.
Notes == {"shared/notes.md"}

\* file_path.name: the last component of a path, which names the lock file.
LockName(p) ==
  CASE p = "shared/notes.md" -> "notes.md"
    [] p = "tasks/notes.md" -> "notes.md"

LockNames == {LockName(p) : p \in Paths}

\* What a file on disk holds; Missing when there is no such file.
Missing == "<missing>"

Original == "v0"

Contents == {"v1"}

Foreign == "vx"

\* file_metadata.get(p) when p is not tracked.
NoRecord == [state |-> "untracked", locked_by |-> NoAgent, last_modified |-> 0, history |-> <<>>]

\* FileMetadata(path=p): a record as the dataclass builds it.
NewRecord == [state |-> AVAILABLE, locked_by |-> NoAgent, last_modified |-> 1, history |-> <<>>]

\* What an operation handed back: a bool, a content, None, nothing yet, or an
\* exception that left the call.
None == "None"

True == "True"

False == "False"

Raised == "raised"

NoResult == "-"

NoEvent == [agent |-> NoAgent, action |-> "-", file |-> "-", details |-> "-"]

NoWrite == [by |-> NoAgent, content |-> Missing, returned |-> FALSE]

\* .workspace_state.json when there is no such file, and when json.load rejects it.
NoFile == [is |-> "no file", files |-> <<>>]

Unparseable == [is |-> "not json", files |-> <<>>]

\* .workspace_state.json as json.dumps(state) writes it, with the list state['files'].
Json(files) == [is |-> "json", files |-> files]

\* JSON null.
Null == "null"

\* metadata.history[-10:]
HistoryKept == 10

\* A value no enum member has, and a text datetime.fromisoformat rejects.
BadValue == "bogus"

BadStamp == -1

VARIABLES
  file_metadata,   \* self.file_metadata: path -> FileMetadata (NoRecord: untracked)
  agent_activity,  \* self.agent_activity: agent -> last_active, current_files
  mutex,           \* the lock files of .locks/: lock name -> agent whose FileLock holds it
  disk,            \* the files of the workspace: path -> content
  backups,         \* the copies under history/: <<file name, content>>
  log,             \* the day's logs/events_*.jsonl: sequence of events
  events,          \* watcher notifications scheduled and not yet handled
  proc,            \* each agent's call (id: its number) and where it is suspended
  ops,             \* calls started so far
  externals,       \* outside modifications so far
  faults,          \* I/O failures so far
  held,            \* history: what each agent was granted and has not released
  lastWrite,       \* history: who wrote the file last through write_file and whether that
                   \* call has returned True; NoWrite once anything else touched the path
  state_file,      \* .workspace_state.json: NoFile, Unparseable, or the 'files' list
  ctx              \* the ContextManager: its entries, memories, files, tasks

vars == <<file_metadata, agent_activity, mutex, disk, backups, log, events, proc,
          ops, externals, faults, held, lastWrite, state_file, ctx>>

(* ContextManager *)

\* self.agent_memories, as made by __init__
CtxAgents == {"claude", "gemini"}

\* The tasks that call the ContextManager.
CtxTasks == {"task1", "task2"}

\* The questions agents put to their peer.
Questions == {"q1", "q2"}

\* self.files: current_context.json and the two memory files
Stages == << "current", "claude_memory", "gemini_memory" >>

FileNames == {Stages[i] : i \in DOMAIN Stages}

\* self.files.get(f'{agent}_memory')
MemoryFile(agent) == IF agent = "claude" THEN "claude_memory" ELSE "gemini_memory"

\* The agent whose memory file is loaded at a stage of _load_context.
StageAgent(i) == IF Stages[i] = "claude_memory" THEN "claude" ELSE "gemini"

\* A file that does not exist, a file opened with 'w' and not yet written, and
\* the json written by _save_agent_memory and _save_context.
Absent == [is |-> "absent", entries |-> << >>, questions |-> << >>]

Truncated == [is |-> "empty", entries |-> << >>, questions |-> << >>]

SavedMemory(qs) == [is |-> "json", entries |-> << >>, questions |-> qs]

SavedContext(es) == [is |-> "json", entries |-> es, questions |-> << >>]

\* get_context_for_agent: the default of max_entries
DefaultMaxEntries == 50

\* _trim_context: the length above which it trims, the number of recent entries
\* it keeps, and the importance from which an entry is kept whatever its age
TrimAbove == 100

TrimKeep == 50

ImportantFrom == 7

\* No ContextEntry.
NoEntry == [agent |-> "-", type |-> "-", tags |-> {}, importance |-> 0, timestamp |-> 0]

\* A task of the ContextManager's callers that is in no call.
CIdle == [pc |-> "idle", op |-> "-", agent |-> "-", got |-> << >>, first |-> << >>,
          stale |-> FALSE, frozen |-> << >>, result |-> NoResult,
          added |-> NoEntry, snap |-> << >>,
          types |-> {}, max |-> 0, entries |-> << >>, at |-> 0]

\* _load_context before its first step, and when it is over.
LoaderStart == [stage |-> 1, pc |-> "check", data |-> Absent]

LoaderDone == [stage |-> Len(Stages), pc |-> "done", data |-> Absent]

\* A ContextManager nobody uses: no file, no entry, _load_context over.
NoContext ==
  [context_entries |-> << >>,
   agent_memories |-> [x \in CtxAgents |-> << >>],
   files |-> [n \in FileNames |-> Absent],
   loader |-> LoaderDone,
   calls |-> [t \in CtxTasks |-> CIdle],
   asked |-> {},
   handed |-> [q \in Questions |-> 0],
   clock |-> 0,
   latest |-> [x \in CtxAgents |-> NoEntry]]

\* No view has been handed out.
NoView == [locked_files |-> {}, shared_files |-> {}, recent_changes |-> << >>]

Idle == [pc |-> "idle", id |-> 0, op |-> "-", path |-> "-", write |-> FALSE, content |-> Missing,
         backup |-> FALSE, event |-> NoEvent, outcome |-> NoResult, result |-> NoResult,
         blob |-> NoFile, view |-> NoView]

Init ==
  /\ file_metadata = [p \in Paths |-> NoRecord]
  /\ agent_activity = [a \in Agents |-> [last_active |-> 0, current_files |-> {}]]
  /\ mutex = [n \in LockNames |-> NoAgent]
  /\ disk \in {[p \in Paths |-> IF p \in Notes THEN c ELSE Original] : c \in {Missing, Original}}
  /\ backups = {}
  /\ log = <<>>
  /\ events = {}
  /\ proc = [t \in Tasks |-> Idle]
  /\ ops = 0
  /\ externals = 0
  /\ faults = 0
  /\ held = [a \in Agents |-> [p \in Paths |-> "none"]]
  /\ lastWrite = [p \in Paths |-> NoWrite]
  /\ state_file = NoFile
  /\ ctx = NoContext

(* ------------------------------ helpers ------------------------------- *)

\* datetime.now() stored over the stamp t: a later time.  Stamps are compared
\* only with earlier stamps of the same field.
Later(t) == t + 1

\* The event _log_file_event builds; its place in the history and in the event
\* file stands for its timestamp.
Event(p, a, action, details) ==
  [agent |-> a, action |-> action, file |-> p, details |-> details]

\* _log_file_event, first half: the event joins the history of a tracked path.
\* A log file opened for writing instead of appending: the earlier lines are lost.
AppendedFresh(l, ev) == << ev >>

\* _log_file_event: the day's log file, opened in mode 'a', after the write.
Appended(l, ev) == Append(l, ev)

AppendHistory(fm, p, ev) ==
  IF fm[p] # NoRecord THEN [fm EXCEPT ![p].history = Append(@, ev)] ELSE fm

\* What read_file and write_file hand back when acquire_file returned False.
FailResult(op) == IF op = "read" THEN None ELSE False

\* The call of agent a is over and handed back res; of its frame the operation,
\* the path, the access asked for and the content stay on view.
Finished(a, res) ==
  [proc EXCEPT ![a].pc = "idle", ![a].result = res, ![a].event = NoEvent,
               ![a].outcome = NoResult, ![a].blob = NoFile, ![a].backup = FALSE]

\* Denied that turns the holder away as well.
DeniedAnyWriter(md, a) == md.state = LOCKED_WRITE

\* Denied with the comparison of the holder turned round.
DeniedHolder(md, a) == md.state = LOCKED_WRITE /\ md.locked_by = a

\* acquire_file, "Check current state": the request is turned away.
Denied(md, a) == md.state = LOCKED_WRITE /\ md.locked_by # a

\* Locked that sets the state and forgets the holder.
LockedNoHolder(md, a, w) ==
  IF w THEN [md EXCEPT !.state = LOCKED_WRITE]
  ELSE IF md.state # LOCKED_WRITE THEN [md EXCEPT !.state = LOCKED_READ]
  ELSE md

\* Locked whose shared branch takes the record whatever its state.
LockedReadOver(md, a, w) ==
  IF w THEN [md EXCEPT !.state = LOCKED_WRITE, !.locked_by = a]
  ELSE [md EXCEPT !.state = LOCKED_READ, !.locked_by = a]

\* acquire_file, "Try to acquire lock": the record after the lock is taken.
Locked(md, a, w) ==
  IF w THEN [md EXCEPT !.state = LOCKED_WRITE, !.locked_by = a]
  ELSE IF md.state # LOCKED_WRITE THEN [md EXCEPT !.state = LOCKED_READ, !.locked_by = a]
  ELSE md

\* Holder that takes any tracked record for the caller's.
HolderAnyone(md, a) == md # NoRecord

\* release_file: the path is tracked and the caller is its locked_by.
Holder(md, a) == md # NoRecord /\ md.locked_by = a

\* Unlocked that forgets the holder.
UnlockedStateOnly(md) == [md EXCEPT !.state = AVAILABLE]

\* Unlocked that forgets the state.
UnlockedHolderOnly(md) == [md EXCEPT !.locked_by = NoAgent]

\* release_file: the record of an agent that is its locked_by.
Unlocked(md) == [md EXCEPT !.state = AVAILABLE, !.locked_by = NoAgent]

\* History: what the agent holds once acquire_file(p, a, w) has returned True.
Granted(h, w) == IF w \/ h = "write" THEN "write" ELSE "read"

\* History: a call other than read_file on p, or another hand on the file, ends
\* "immediately after the write".
Touch(p) == [lastWrite EXCEPT ![p] = NoWrite]

(* --------------------------- acquire_file ----------------------------- *)

\* acquire_file up to its first suspension, as the call acquire_file(p, a, w) itself
\* (op = "acquire") or as the first statement of read_file / write_file.
AcquireStart(a, p, w, op, c, bk) ==
  /\ proc[a].pc = "idle"
  /\ ops' = ops + 1
  /\ lastWrite' = IF op = "read" THEN lastWrite ELSE Touch(p)
  /\ UNCHANGED state_file
  /\ LET fm1 == IF file_metadata[p] = NoRecord
                THEN [file_metadata EXCEPT ![p] = NewRecord]
                ELSE file_metadata
         md == fm1[p]
         call == [Idle EXCEPT !.id = ops + 1, !.op = op, !.path = p, !.write = w, !.content = c, !.backup = bk]
     IN IF Denied(md, a) \/ (w /\ mutex[LockName(p)] # NoAgent)
        THEN \* "is locked for writing by", or lock.acquire() ran into filelock.Timeout
             /\ file_metadata' = fm1
             /\ proc' = [proc EXCEPT ![a] = [call EXCEPT !.result = FailResult(op)]]
             /\ UNCHANGED <<agent_activity, mutex, disk, backups, log, events,
                            externals, faults, held>>
        ELSE LET ev == Event(p, a, "acquired", IF w THEN "write=True" ELSE "write=False")
             IN /\ file_metadata' = AppendHistory([fm1 EXCEPT ![p] = Locked(md, a, w)], p, ev)
                /\ mutex' = IF w THEN [mutex EXCEPT ![LockName(p)] = a] ELSE mutex
                /\ agent_activity' = [agent_activity EXCEPT
                                        ![a].last_active = Later(@),
                                        ![a].current_files = @ \cup {p}]
                /\ proc' = [proc EXCEPT ![a] = [call EXCEPT !.pc = "acq_log", !.event = ev]]
                /\ UNCHANGED <<disk, backups, log, events, externals, faults, held>>
  /\ UNCHANGED ctx

AcquireFile(a, p, w) == AcquireStart(a, p, w, "acquire", Missing, FALSE)

\* acquire_file after the append to the event file: it returns True, its FileLock
\* goes out of scope, and read_file / write_file run on to their next suspension.
\* With ok = FALSE the append fails and the exception leaves the call.
AcquireLogged(a, ok) ==
  LET p == proc[a].path
      op == proc[a].op
  IN /\ proc[a].pc = "acq_log"
     /\ mutex' = [mutex EXCEPT ![LockName(p)] = IF @ = a THEN NoAgent ELSE @]
     /\ IF ok
        THEN /\ log' = Appended(log, proc[a].event)
             /\ held' = [held EXCEPT ![a][p] = Granted(@, proc[a].write)]
             /\ proc' = IF op = "acquire" THEN Finished(a, True)
                        ELSE IF op = "read" THEN [proc EXCEPT ![a].pc = "read_io", ![a].event = NoEvent]
                        ELSE IF proc[a].backup /\ disk[p] # Missing
                             THEN [proc EXCEPT ![a].pc = "write_backup", ![a].event = NoEvent]
                             ELSE [proc EXCEPT ![a].pc = "write_io", ![a].event = NoEvent]
             /\ UNCHANGED faults
        ELSE /\ faults < MaxFaults
             /\ faults' = faults + 1
             /\ proc' = Finished(a, Raised)
             /\ UNCHANGED <<log, held>>
     /\ UNCHANGED <<file_metadata, agent_activity, disk, backups, events, ops,
                    externals, lastWrite, state_file>>
     /\ UNCHANGED ctx

(* --------------------------- release_file ----------------------------- *)

\* History: write_file hands back res; True for the content that is still the
\* last thing written to the file.
WroteAfter(a, p, res) ==
  IF proc[a].op = "write" /\ lastWrite[p].by = a
  THEN IF res = True THEN [lastWrite EXCEPT ![p].returned = TRUE] ELSE Touch(p)
  ELSE lastWrite

\* release_file up to its suspension, for a call (call: its frame) that hands back
\* res when it is over: the call release_file(p, a) itself, or the finally of
\* read_file / write_file.
ReleaseSync(a, p, call, res) ==
  /\ held' = [held EXCEPT ![a][p] = "none"]
  /\ IF Holder(file_metadata[p], a)
     THEN LET ev == Event(p, a, "released", "-")
          IN /\ file_metadata' = AppendHistory([file_metadata EXCEPT ![p] = Unlocked(@)], p, ev)
             /\ agent_activity' = [agent_activity EXCEPT ![a].current_files = @ \ {p}]
             /\ proc' = [proc EXCEPT ![a] = [call EXCEPT !.pc = "rel_log", !.event = ev,
                                                          !.outcome = res]]
             /\ lastWrite' = IF call.op = "release" THEN Touch(p) ELSE lastWrite
     ELSE /\ proc' = [proc EXCEPT ![a] = [call EXCEPT !.pc = "idle", !.event = NoEvent,
                                                       !.outcome = NoResult, !.result = res,
                                                       !.backup = FALSE]]
          /\ lastWrite' = IF call.op = "release" THEN Touch(p) ELSE WroteAfter(a, p, res)
          /\ UNCHANGED <<file_metadata, agent_activity>>

ReleaseFile(a, p) ==
  /\ proc[a].pc = "idle"
  /\ ops' = ops + 1
  /\ ReleaseSync(a, p, [Idle EXCEPT !.id = ops + 1, !.op = "release", !.path = p], NoResult)
  /\ UNCHANGED <<mutex, disk, backups, log, events, externals, faults, state_file>>
  /\ UNCHANGED ctx

\* release_file after the append to the event file; the call it ends hands back
\* its result.  With ok = FALSE the append fails and the exception leaves the call.
ReleaseLogged(a, ok) ==
  LET p == proc[a].path
  IN /\ proc[a].pc = "rel_log"
     /\ IF ok
        THEN /\ log' = Appended(log, proc[a].event)
             /\ proc' = Finished(a, proc[a].outcome)
             /\ lastWrite' = WroteAfter(a, p, proc[a].outcome)
             /\ UNCHANGED faults
        ELSE /\ faults < MaxFaults
             /\ faults' = faults + 1
             /\ proc' = Finished(a, Raised)
             /\ UNCHANGED <<log, lastWrite>>
     /\ UNCHANGED <<file_metadata, agent_activity, mutex, disk, backups, events,
                    ops, externals, held, state_file>>
     /\ UNCHANGED ctx

(* ----------------------------- read_file ------------------------------ *)

ReadFile(a, p) == AcquireStart(a, p, FALSE, "read", Missing, FALSE)

\* read_file, the aiofiles.open / read of the file and the history half of the
\* "read" event.  A file that is not there (or, with ok = FALSE, any other I/O
\* failure) raises, and the finally runs release_file.
ReadIO(a, ok) ==
  LET p == proc[a].path
  IN /\ proc[a].pc = "read_io"
     /\ IF ok /\ disk[p] # Missing
        THEN LET ev == Event(p, a, "read", "-")
             IN /\ file_metadata' = AppendHistory(file_metadata, p, ev)
                /\ proc' = [proc EXCEPT ![a].pc = "read_log", ![a].content = disk[p],
                                        ![a].event = ev]
                /\ UNCHANGED <<agent_activity, held, lastWrite, faults>>
        ELSE /\ IF ok THEN UNCHANGED faults
                ELSE faults < MaxFaults /\ faults' = faults + 1
             /\ ReleaseSync(a, p, proc[a], Raised)
     /\ UNCHANGED <<mutex, disk, backups, log, events, ops, externals, state_file>>
     /\ UNCHANGED ctx

\* read_file after the append of the "read" event: return content, through the
\* finally.
ReadLogged(a, ok) ==
  LET p == proc[a].path
  IN /\ proc[a].pc = "read_log"
     /\ IF ok
        THEN /\ log' = Appended(log, proc[a].event)
             /\ ReleaseSync(a, p, proc[a], proc[a].content)
             /\ UNCHANGED faults
        ELSE /\ faults < MaxFaults
             /\ faults' = faults + 1
             /\ ReleaseSync(a, p, proc[a], Raised)
             /\ UNCHANGED log
     /\ UNCHANGED <<mutex, disk, backups, events, ops, externals, state_file>>
     /\ UNCHANGED ctx

(* ----------------------------- write_file ----------------------------- *)

WriteFile(a, p, c, bk) == AcquireStart(a, p, TRUE, "write", c, bk)

\* BackedUp that makes no copy.
BackedUpNothing(b, p, d) == b

\* write_file, "Create backup if file exists": history/ after the copy of the
\* file, named after file_path.name.
BackedUp(b, p, d) == b \cup {<<LockName(p), d[p]>>}

\* write_file, "Create backup if file exists": the copy into history/.
WriteBackup(a, ok) ==
  LET p == proc[a].path
  IN /\ proc[a].pc = "write_backup"
     /\ IF ok /\ disk[p] # Missing
        THEN /\ backups' = BackedUp(backups, p, disk)
             /\ proc' = [proc EXCEPT ![a].pc = "write_io"]
             /\ UNCHANGED <<file_metadata, agent_activity, held, lastWrite, faults>>
        ELSE /\ IF ok THEN UNCHANGED faults
                ELSE faults < MaxFaults /\ faults' = faults + 1
             /\ ReleaseSync(a, p, proc[a], False)
             /\ UNCHANGED backups
     /\ UNCHANGED <<mutex, disk, log, events, ops, externals, state_file>>
     /\ UNCHANGED ctx

\* The notifications the observer raises for a write of p by who.
Notify(p, who) ==
  {[kind |-> "modified", path |-> p, by |-> who]}
    \cup (IF disk[p] = Missing THEN {[kind |-> "created", path |-> p, by |-> who]} ELSE {})

\* Written that opens (and so empties or creates) the file and writes nothing.
WrittenNothing(d, p, c) == [d EXCEPT ![p] = Original]

\* aiofiles.open(abs_path, 'w') and f.write(content): the files afterwards.
Written(d, p, c) == [d EXCEPT ![p] = c]

\* write_file, "Write new content": the file takes the content and the observer
\* sees it.  With ok = FALSE the write fails: except Exception, return False.
WriteIO(a, ok) ==
  LET p == proc[a].path
  IN /\ proc[a].pc = "write_io"
     /\ IF ok
        THEN /\ disk' = Written(disk, p, proc[a].content)
             /\ events' = events \cup Notify(p, a)
             /\ proc' = [proc EXCEPT ![a].pc = "write_meta"]
             /\ lastWrite' = [lastWrite EXCEPT ![p] = [by |-> a, content |-> proc[a].content,
                                                       returned |-> FALSE]]
             /\ UNCHANGED <<file_metadata, agent_activity, held, faults>>
        ELSE /\ faults < MaxFaults
             /\ faults' = faults + 1
             /\ ReleaseSync(a, p, proc[a], False)
             /\ UNCHANGED <<disk, events>>
     /\ UNCHANGED <<mutex, backups, log, ops, externals, state_file>>
     /\ UNCHANGED ctx

\* write_file, "Update metadata", and the history half of the "wrote" event.
WriteMeta(a) ==
  LET p == proc[a].path
      ev == Event(p, a, "wrote", "size")
  IN /\ proc[a].pc = "write_meta"
     /\ file_metadata' =
          AppendHistory(IF file_metadata[p] # NoRecord
                        THEN [file_metadata EXCEPT ![p].last_modified = Later(@),
                                                   ![p].state = MODIFIED]
                        ELSE file_metadata, p, ev)
     /\ proc' = [proc EXCEPT ![a].pc = "write_log", ![a].event = ev]
     /\ UNCHANGED <<agent_activity, mutex, disk, backups, log, events, ops, externals,
                    faults, held, lastWrite, state_file>>
     /\ UNCHANGED ctx

\* write_file after the append of the "wrote" event: return True, through the
\* finally.  A failed append is caught like any other exception: return False.
WriteLogged(a, ok) ==
  LET p == proc[a].path
  IN /\ proc[a].pc = "write_log"
     /\ IF ok
        THEN /\ log' = Appended(log, proc[a].event)
             /\ ReleaseSync(a, p, proc[a], True)
             /\ UNCHANGED faults
        ELSE /\ faults < MaxFaults
             /\ faults' = faults + 1
             /\ ReleaseSync(a, p, proc[a], False)
             /\ UNCHANGED log
     /\ UNCHANGED <<mutex, disk, backups, events, ops, externals, state_file>>
     /\ UNCHANGED ctx

(* ------------------------------ watcher ------------------------------- *)

\* Something other than the manager writes a workspace file.
ExternalModify(p) ==
  /\ externals < MaxExternal
  /\ externals' = externals + 1
  /\ disk' = [disk EXCEPT ![p] = Foreign]
  /\ events' = events \cup Notify(p, External)
  /\ lastWrite' = Touch(p)
  /\ UNCHANGED <<file_metadata, agent_activity, mutex, backups, log, proc, ops,
                 faults, held, state_file>>
  /\ UNCHANGED ctx

\* Changed without the check for conflicts.
ChangedStampOnly(md) == [md EXCEPT !.last_modified = Later(@)]

\* Changed that reports a conflict for a record locked in either way.
ChangedAnyLock(md) ==
  [md EXCEPT !.last_modified = Later(@),
             !.state = IF @ \in {LOCKED_READ, LOCKED_WRITE} THEN CONFLICT ELSE @]

\* The record after _handle_file_change.
Changed(md) ==
  [md EXCEPT !.last_modified = Later(@),
             !.state = IF @ = LOCKED_WRITE THEN CONFLICT ELSE @]

\* on_modified -> _handle_file_change
HandleFileChange(e) ==
  /\ e \in events
  /\ e.kind = "modified"
  /\ events' = events \ {e}
  /\ IF file_metadata[e.path] # NoRecord
     THEN file_metadata' = [file_metadata EXCEPT ![e.path] = Changed(@)]
     ELSE UNCHANGED file_metadata
  /\ UNCHANGED <<agent_activity, mutex, disk, backups, log, proc, ops, externals,
                 faults, held, lastWrite, state_file>>
  /\ UNCHANGED ctx

\* Created that starts a fresh record whether or not the path is tracked.
CreatedAfresh(md) == NewRecord

\* The record after _handle_file_created.
Created(md) == IF md = NoRecord THEN NewRecord ELSE md

\* on_created -> _handle_file_created
HandleFileCreated(e) ==
  /\ e \in events
  /\ e.kind = "created"
  /\ events' = events \ {e}
  /\ file_metadata' = [file_metadata EXCEPT ![e.path] = Created(@)]
  /\ UNCHANGED <<agent_activity, mutex, disk, backups, log, proc, ops, externals,
                 faults, held, lastWrite, state_file>>
  /\ UNCHANGED ctx

(* ----------------------------- snapshots ------------------------------ *)

\* LastEvents that keeps the oldest events.
FirstEvents(h) == SubSeq(h, 1, IF Len(h) > HistoryKept THEN HistoryKept ELSE Len(h))

\* history[-10:]
LastEvents(h) == SubSeq(h, IF Len(h) > HistoryKept THEN Len(h) - HistoryKept + 1 ELSE 1, Len(h))

\* EntryAvailable: Entry that writes every record down as available.
EntryAvailable(p, md) ==
  [path |-> p, state |-> AVAILABLE,
   locked_by |-> IF md.locked_by # NoAgent THEN md.locked_by ELSE Null,
   last_modified |-> md.last_modified, history |-> LastEvents(md.history)]

\* save_workspace_state: the dictionary written for one record.
Entry(p, md) ==
  [path |-> p, state |-> md.state,
   locked_by |-> IF md.locked_by # NoAgent THEN md.locked_by ELSE Null,
   last_modified |-> md.last_modified, history |-> LastEvents(md.history)]

\* The tracked paths of a store.
Tracked(fm) == {p \in Paths : fm[p] # NoRecord}

\* The orders in which a set of paths can be listed.
Orders(S) == {o \in [1..Cardinality(S) -> S] : \A i, j \in DOMAIN o : o[i] = o[j] => i = j}

\* save_workspace_state: the 'files' lists it can build for a store.  The order of
\* file_metadata.items() is the order in which the records were made, which the
\* store here does not keep: any order.
Snapshots(fm) == {Json([i \in DOMAIN o |-> Entry(o[i], fm[o[i]])]) : o \in Orders(Tracked(fm))}

\* FileState(..), AgentType(..) and datetime.fromisoformat(..) accept the entry.
Valid(e) ==
  /\ e.state \in FileState
  /\ e.locked_by \in Agents \cup {Null}
  /\ e.last_modified # BadStamp

\* _initialize_workspace_state: the FileMetadata built from an entry.
Decode(e) ==
  [state |-> e.state, locked_by |-> IF e.locked_by # Null THEN e.locked_by ELSE NoAgent,
   last_modified |-> e.last_modified, history |-> e.history]

\* _initialize_workspace_state, "for file_data in state.get('files', [])": entries
\* of files that are gone are skipped; the first entry that raises ends the loop
\* (except Exception) with the records made so far.
RECURSIVE RestoreFrom(_, _, _)
RestoreFrom(entries, d, fm) ==
  IF entries = <<>> THEN fm
  ELSE LET e == Head(entries)
       IN IF d[e.path] = Missing THEN RestoreFrom(Tail(entries), d, fm)
          ELSE IF Valid(e) THEN RestoreFrom(Tail(entries), d, [fm EXCEPT ![e.path] = Decode(e)])
          ELSE fm

\* _initialize_workspace_state: the store of a fresh manager.
Restore(blob, d) ==
  IF blob.is # "json" THEN [p \in Paths |-> NoRecord]
  ELSE RestoreFrom(blob.files, d, [p \in Paths |-> NoRecord])

\* save_workspace_state up to its suspension: the state dictionary is built.
SaveWorkspaceState ==
  /\ proc[Server].pc = "idle"
  /\ \E blob \in Snapshots(file_metadata) :
       proc' = [proc EXCEPT ![Server] = [Idle EXCEPT !.op = "save", !.pc = "save_io",
                                                     !.blob = blob]]
  /\ UNCHANGED <<file_metadata, agent_activity, mutex, disk, backups, log, events, ops,
                 externals, faults, held, lastWrite, state_file>>
  /\ UNCHANGED ctx

\* save_workspace_state, the write of .workspace_state.json.  With ok = FALSE the
\* write fails: the exception leaves the call, and the file, opened with 'w', is as
\* it was or cut short.
SaveIO(ok) ==
  /\ proc[Server].pc = "save_io"
  /\ IF ok
     THEN /\ state_file' = proc[Server].blob
          /\ proc' = Finished(Server, None)
          /\ UNCHANGED faults
     ELSE /\ faults < MaxFaults
          /\ faults' = faults + 1
          /\ state_file' \in {state_file, Unparseable}
          /\ proc' = Finished(Server, Raised)
  /\ UNCHANGED <<file_metadata, agent_activity, mutex, disk, backups, log, events,
                 ops, externals, held, lastWrite>>
  /\ UNCHANGED ctx

\* WorkspaceManager(workspace_path) on the workspace of a manager whose process
\* is over: its tasks, its locks and its observer are gone, the files are there.
Restart ==
  /\ file_metadata' = Restore(state_file, disk)
  /\ agent_activity' = [a \in Agents |-> [last_active |-> 0, current_files |-> {}]]
  /\ mutex' = [n \in LockNames |-> NoAgent]
  /\ events' = {}
  /\ proc' = [t \in Tasks |-> Idle]
  /\ held' = [a \in Agents |-> [p \in Paths |-> "none"]]
  /\ lastWrite' = [p \in Paths |-> NoWrite]
  /\ UNCHANGED <<disk, backups, log, ops, externals, faults, state_file>>
  /\ UNCHANGED ctx

\* Something damages .workspace_state.json: the whole file, or one value of one
\* entry.
CorruptStateFile ==
  /\ externals < MaxExternal
  /\ externals' = externals + 1
  /\ state_file.is = "json"
  /\ \/ state_file' = Unparseable
     \/ \E i \in DOMAIN state_file.files :
          \/ state_file' = [state_file EXCEPT !.files[i].state = BadValue]
          \/ state_file' = [state_file EXCEPT !.files[i].locked_by = BadValue]
          \/ state_file' = [state_file EXCEPT !.files[i].last_modified = BadStamp]
  /\ UNCHANGED <<file_metadata, agent_activity, mutex, disk, backups, log, events, proc,
                 ops, faults, held, lastWrite>>
  /\ UNCHANGED ctx

\* Something other than the manager deletes a workspace file.  The observer's
\* handler has no on_deleted.
ExternalDelete(p) ==
  /\ externals < MaxExternal
  /\ disk[p] # Missing
  /\ externals' = externals + 1
  /\ disk' = [disk EXCEPT ![p] = Missing]
  /\ lastWrite' = Touch(p)
  /\ UNCHANGED <<file_metadata, agent_activity, mutex, backups, log, events, proc, ops,
                 faults, held, state_file>>
  /\ UNCHANGED ctx

(* ------------------------------ queries ------------------------------- *)

\* sorted(self.dirs['logs'].glob("events_*.jsonl"), reverse=True): the event files,
\* newest day first.  A run is within one day.
LogFiles == << log >>

\* _get_recent_events, "async for line in f": the events found so far (found) and
\* the lines still to read; it stops reading once found holds limit events.
RECURSIVE ScanLines(_, _, _, _)
ScanLines(lines, a, limit, found) ==
  IF lines = <<>> THEN found
  ELSE IF Head(lines).agent = a
       THEN IF Len(found) + 1 >= limit THEN Append(found, Head(lines))
            ELSE ScanLines(Tail(lines), a, limit, Append(found, Head(lines)))
       ELSE ScanLines(Tail(lines), a, limit, found)

\* _get_recent_events, "for log_file in log_files[:3]".
RECURSIVE ScanFiles(_, _, _, _)
ScanFiles(files, a, limit, found) ==
  IF files = <<>> THEN found
  ELSE LET got == ScanLines(Head(files), a, limit, found)
       IN IF Len(got) >= limit /\ Len(got) > Len(found) THEN got
          ELSE ScanFiles(Tail(files), a, limit, got)

\* _get_recent_events(agent, limit)
GetRecentEvents(a, limit) ==
  ScanFiles(SubSeq(LogFiles, 1, IF Len(LogFiles) < 3 THEN Len(LogFiles) ELSE 3), a, limit, <<>>)

(* --------------------------- get_agent_view --------------------------- *)

\* get_agent_view, limit of _get_recent_events
ViewLimit == 10

\* get_agent_view, file_info of a record
FileInfo(p, md) == [path |-> p, state |-> md.state, last_modified |-> md.last_modified]

\* AgentView that lists every record somebody else or nobody holds as shared.
AgentViewAllShared(fm, a) ==
  [NoView EXCEPT
     !.locked_files = {FileInfo(p, fm[p]) : p \in {q \in Tracked(fm) : fm[q].locked_by = a}},
     !.shared_files = {FileInfo(p, fm[p]) : p \in {q \in Tracked(fm) : fm[q].locked_by # a}}]

\* get_agent_view, "Add file information": locked_by == agent puts the record in
\* locked_files, otherwise state AVAILABLE puts it in shared_files.
AgentView(fm, a) ==
  [NoView EXCEPT
     !.locked_files = {FileInfo(p, fm[p]) : p \in {q \in Tracked(fm) : fm[q].locked_by = a}},
     !.shared_files = {FileInfo(p, fm[p]) :
                         p \in {q \in Tracked(fm) : fm[q].locked_by # a /\ fm[q].state = AVAILABLE}}]

\* get_agent_view(a) up to the reading of the event files; with no event file
\* there is nothing to wait for and the call returns at once.
GetAgentView(a) ==
  /\ proc[a].pc = "idle"
  /\ ops' = ops + 1
  /\ LET call == [Idle EXCEPT !.id = ops + 1, !.op = "view", !.view = AgentView(file_metadata, a)]
     IN proc' = [proc EXCEPT ![a] = IF log = << >> THEN [call EXCEPT !.result = True]
                                    ELSE [call EXCEPT !.pc = "view_log"]]
  /\ UNCHANGED <<file_metadata, agent_activity, mutex, disk, backups, log, events,
                 externals, faults, held, lastWrite, state_file>>
  /\ UNCHANGED ctx

\* get_agent_view, "Add recent changes", and the return of the view.
ViewLogged(a) ==
  /\ proc[a].pc = "view_log"
  /\ proc' = [proc EXCEPT ![a].pc = "idle", ![a].result = True,
                          ![a].view.recent_changes = GetRecentEvents(a, ViewLimit)]
  /\ UNCHANGED <<file_metadata, agent_activity, mutex, disk, backups, log, events, ops,
                 externals, faults, held, lastWrite, state_file>>
  /\ UNCHANGED ctx

(* --------------------------- ContextManager --------------------------- *)

\* The variables of the WorkspaceManager that no call of the ContextManager
\* touches.
workspace == <<file_metadata, agent_activity, mutex, disk, backups, log, events, proc,
               externals, held, lastWrite, state_file>>

\* ContextManager(workspace_path) on a workspace as a session before left it:
\* without memory files, or with the memory files of agents whose questions have
\* all been fetched; _load_context has been scheduled by the constructor.
CtxInit ==
  /\ file_metadata = [p \in Paths |-> NoRecord]
  /\ agent_activity = [a \in Agents |-> [last_active |-> 0, current_files |-> {}]]
  /\ mutex = [n \in LockNames |-> NoAgent]
  /\ disk = [p \in Paths |-> Original]
  /\ backups = {}
  /\ log = <<>>
  /\ events = {}
  /\ proc = [t \in Tasks |-> Idle]
  /\ ops = 0
  /\ externals = 0
  /\ faults = 0
  /\ held = [a \in Agents |-> [p \in Paths |-> "none"]]
  /\ lastWrite = [p \in Paths |-> NoWrite]
  /\ state_file = NoFile
  /\ \E old \in {Absent, SavedMemory(<< >>)} :
       ctx = [NoContext EXCEPT !.loader = LoaderStart,
                               !.files = [n \in FileNames |-> IF n = "current" THEN Absent ELSE old]]

\* The task the constructor created has had its first turn: it has it as soon as
\* the constructor's caller is suspended.
Started == ~(ctx.loader.pc = "check" /\ ctx.loader.stage = 1)

\* get_peer_questions: peer_agent
Peer(for_agent) == IF for_agent = "claude" THEN "gemini" ELSE "claude"

\* History: the questions of qs have been handed to a caller once more.
Handed(h, qs) ==
  [q \in Questions |-> h[q] + Cardinality({i \in DOMAIN qs : qs[i] = q})]

\* update_agent_memory(x, question_for_peer=q) up to the open of the memory
\* file; q = None stands for a call without a question.
UpdateAgentMemory(t, x, q) ==
  /\ ctx.calls[t].pc = "idle"
  /\ q \in Questions => q \notin ctx.asked
  /\ ops' = ops + 1
  /\ ctx' = [ctx EXCEPT
               !.agent_memories[x] = IF q \in Questions THEN Append(@, q) ELSE @,
               !.asked = IF q \in Questions THEN @ \cup {q} ELSE @,
               !.calls[t] = [CIdle EXCEPT !.pc = "mem_open", !.op = "update", !.agent = x]]
  /\ UNCHANGED <<faults, workspace>>

\* get_peer_questions(for_agent) up to the open of the peer's memory file: the
\* questions are copied and the peer's list is cleared.
PeerQuestions(c, t, for_agent, op, first) ==
  [c EXCEPT
     !.agent_memories[Peer(for_agent)] = << >>,
     !.calls[t] = [CIdle EXCEPT !.pc = "mem_open", !.op = op, !.agent = Peer(for_agent),
                                !.got = c.agent_memories[Peer(for_agent)], !.first = first]]

GetPeerQuestions(t, y) ==
  /\ ctx.calls[t].pc = "idle"
  /\ ops' = ops + 1
  /\ ctx' = PeerQuestions(ctx, t, y, "peer", << >>)
  /\ UNCHANGED <<faults, workspace>>

\* get_shared_understanding up to the first suspension of its
\* get_peer_questions('claude').
GetSharedUnderstanding(t) ==
  /\ ctx.calls[t].pc = "idle"
  /\ ops' = ops + 1
  /\ ctx' = PeerQuestions(ctx, t, "claude", "shared1", << >>)
  /\ UNCHANGED <<faults, workspace>>

\* An I/O failure: the exception leaves the call, what it held is gone.
CtxRaised(t) ==
  /\ faults < MaxFaults
  /\ faults' = faults + 1
  /\ ctx' = [ctx EXCEPT !.calls[t] = [CIdle EXCEPT !.op = ctx.calls[t].op,
                                                   !.agent = ctx.calls[t].agent,
                                                   !.result = Raised]]

\* _save_agent_memory, aiofiles.open(memory_file, 'w'): the file is there and
\* empty.
MemOpen(t, ok) ==
  /\ ctx.calls[t].pc = "mem_open"
  /\ Started
  /\ IF ok
     THEN /\ ctx' = [ctx EXCEPT !.files[MemoryFile(ctx.calls[t].agent)] = Truncated,
                                !.calls[t].pc = "mem_write"]
          /\ UNCHANGED faults
     ELSE CtxRaised(t)
  /\ UNCHANGED <<ops, workspace>>

\* _save_agent_memory, f.write(json.dumps(memory_data)): memory_data refers to
\* the lists of the memory object the call found when it began, as they are now.
\* After it update_agent_memory returns, get_peer_questions returns the copied
\* questions, and get_shared_understanding goes on.
MemWrite(t, ok) ==
  LET call == ctx.calls[t]
      x == call.agent
      written == [ctx EXCEPT !.files[MemoryFile(x)] =
                    SavedMemory(IF call.stale THEN call.frozen ELSE ctx.agent_memories[x])]
  IN /\ call.pc = "mem_write"
     /\ IF ok
        THEN /\ ctx' = IF call.op = "update"
                       THEN [written EXCEPT !.calls[t].pc = "idle", !.calls[t].result = None]
                       ELSE IF call.op = "peer"
                       THEN [written EXCEPT !.calls[t].pc = "idle", !.calls[t].result = True,
                                            !.handed = Handed(@, call.got)]
                       ELSE IF call.op = "shared1"
                       THEN PeerQuestions(written, t, "gemini", "shared2", call.got)
                       ELSE [written EXCEPT !.calls[t].pc = "shared_write"]
             /\ UNCHANGED faults
        ELSE CtxRaised(t)
     /\ UNCHANGED <<ops, workspace>>

\* get_shared_understanding, "Save shared understanding", and its return with
\* the pending questions for both agents.
SharedWrite(t, ok) ==
  LET call == ctx.calls[t]
  IN /\ call.pc = "shared_write"
     /\ IF ok
        THEN /\ ctx' = [ctx EXCEPT !.calls[t].pc = "idle", !.calls[t].result = True,
                                   !.handed = Handed(@, call.first \o call.got)]
             /\ UNCHANGED faults
        ELSE CtxRaised(t)
     /\ UNCHANGED <<ops, workspace>>

\* _load_context, "if ... .exists()", from file i on: it runs on without a
\* suspension to the first file that exists (an empty file exists) and opens it,
\* or to its end.
LoaderAt(c, i) ==
  LET there == {j \in i..Len(Stages) : c.files[Stages[j]].is # "absent"}
  IN IF there = {} THEN LoaderDone
     ELSE [stage |-> CHOOSE j \in there : \A k \in there : j <= k,
           pc |-> "read", data |-> Absent]

\* _load_context from its start, and from the close of a file it has loaded.
LoadCheck ==
  /\ ctx.loader.pc = "check"
  /\ ctx' = [ctx EXCEPT !.loader = LoaderAt(ctx, @.stage)]
  /\ UNCHANGED <<ops, faults, workspace>>

\* _load_context, "await f.read()": what is in the file at that moment.
LoadRead ==
  /\ ctx.loader.pc = "read"
  /\ ctx' = [ctx EXCEPT !.loader.pc = "assign",
                        !.loader.data = ctx.files[Stages[ctx.loader.stage]]]
  /\ UNCHANGED <<ops, faults, workspace>>

\* _load_context after the file it has loaded, up to the close of the file.
LoaderNext(l) ==
  IF l.stage = Len(Stages) THEN LoaderDone
  ELSE [stage |-> l.stage + 1, pc |-> "check", data |-> Absent]

\* _load_context once the read has come back: json.loads raises on an empty
\* file (logged, next file); the entries are appended to context_entries, a
\* memory replaces the agent's AgentMemory object.  A save that began before
\* still refers to the object it found.
LoadAssign ==
  LET l == ctx.loader
      x == StageAgent(l.stage)
  IN /\ l.pc = "assign"
     /\ ctx' = IF l.data.is # "json" THEN [ctx EXCEPT !.loader = LoaderNext(l)]
               ELSE IF Stages[l.stage] = "current"
               THEN [ctx EXCEPT !.loader = LoaderNext(l),
                                !.context_entries = @ \o l.data.entries]
               ELSE [ctx EXCEPT
                       !.loader = LoaderNext(l),
                       !.agent_memories[x] = l.data.questions,
                       !.calls = [t \in CtxTasks |->
                                    IF /\ @[t].pc \in {"mem_open", "mem_write"}
                                       /\ @[t].agent = x
                                       /\ ~@[t].stale
                                    THEN [@[t] EXCEPT !.stale = TRUE,
                                                      !.frozen = ctx.agent_memories[x]]
                                    ELSE @[t]]]
     /\ UNCHANGED <<ops, faults, workspace>>

\* The entries a session before left in current_context.json: n entries of one
\* agent and one importance, added one after the other before this session.
Filled(n, agent, importance) ==
  [i \in 1..n |-> [agent |-> agent, type |-> "task", tags |-> {},
                   importance |-> importance, timestamp |-> i - n - 1]]

\* ContextManager(workspace_path) on a workspace without context, or with the
\* current_context.json of a session before: entries of importance 8, as many as
\* get_context_for_agent returns by default, or entries of importance 5, as many
\* as _trim_context leaves alone.
EntriesInit ==
  /\ file_metadata = [p \in Paths |-> NoRecord]
  /\ agent_activity = [a \in Agents |-> [last_active |-> 0, current_files |-> {}]]
  /\ mutex = [n \in LockNames |-> NoAgent]
  /\ disk = [p \in Paths |-> Original]
  /\ backups = {}
  /\ log = <<>>
  /\ events = {}
  /\ proc = [t \in Tasks |-> Idle]
  /\ ops = 0
  /\ externals = 0
  /\ faults = 0
  /\ held = [a \in Agents |-> [p \in Paths |-> "none"]]
  /\ lastWrite = [p \in Paths |-> NoWrite]
  /\ state_file = NoFile
  /\ \E old \in {Absent, SavedContext(Filled(DefaultMaxEntries, "claude", 8)),
                  SavedContext(Filled(TrimAbove, "claude", 5))} :
       ctx = [NoContext EXCEPT !.loader = LoaderStart,
                               !.files = [n \in FileNames |-> IF n = "current" THEN old ELSE Absent]]

\* sorted(..., reverse=True) on keys that are pairs: does k1 come before k2
Precedes(k1, k2) == k1[1] > k2[1] \/ (k1[1] = k2[1] /\ k1[2] > k2[2])

\* A list given as a function, as the list itself (TLC then computes each
\* element once, not again at every use).
List(f) == f \o << >>

\* sorted(es, key=..., reverse=True), keys[i] being the key of es[i]: descending
\* by key; entries with equal keys keep the order they have in es.
Sorted(es, keys) ==
  LET ks == List(keys)
      rank == List([i \in DOMAIN es |->
                      1 + Cardinality({j \in DOMAIN es :
                                         \/ Precedes(ks[j], ks[i])
                                         \/ ks[j] = ks[i] /\ j < i})])
  IN List([n \in DOMAIN es |-> es[CHOOSE i \in DOMAIN es : rank[i] = n]])

\* get_context_for_agent: sorted_entries, by (importance, timestamp)
SortedEntries(es) ==
  Sorted(es, [i \in DOMAIN es |-> << es[i].importance, es[i].timestamp >>])

\* get_context_for_agent(agent, context_types, max_entries): relevant_entries.
\* The loop over sorted_entries passes over an entry of another type when types
\* are asked for (context_types None or empty: types = {}), appends an entry of
\* the agent or tagged 'shared', and then compares the length with max_entries:
\* it breaks at the first entry it did not pass over where the length has
\* reached max_entries.
RelevantEntries(es, agent, types, max) ==
  LET sorted_entries == SortedEntries(es)
      Looked(i) == types = {} \/ sorted_entries[i].type \in types
      Taken(i) == /\ Looked(i)
                  /\ sorted_entries[i].agent = agent \/ "shared" \in sorted_entries[i].tags
      count == List([i \in DOMAIN sorted_entries |->
                       Cardinality({j \in 1..i : Taken(j)})])
      breaks == {i \in DOMAIN sorted_entries : Looked(i) /\ count[i] >= max}
      last == IF breaks = {} THEN Len(sorted_entries)
              ELSE CHOOSE i \in breaks : \A k \in breaks : i <= k
      taken == {i \in 1..last : Taken(i)}
  IN List([n \in 1..Cardinality(taken) |->
             sorted_entries[CHOOSE i \in taken : count[i] = n]])

\* _trim_context: above TrimAbove entries, the important entries in their order,
\* then the TrimKeep most recent of the others, the most recent first.
TrimContext(es) ==
  IF Len(es) > TrimAbove
  THEN LET important == SelectSeq(es, LAMBDA e : e.importance >= ImportantFrom)
           others == SelectSeq(es, LAMBDA e : e.importance < ImportantFrom)
           recent == Sorted(others, [i \in DOMAIN others |-> << 0, others[i].timestamp >>])
       IN important \o SubSeq(recent, 1, IF Len(recent) < TrimKeep THEN Len(recent) ELSE TrimKeep)
  ELSE es

\* add_context(a, type, content, tags=tags, importance=importance) up to the
\* open of current_context.json: the entry is appended, the list trimmed, and
\* context_data built from the list.
AddContext(t, a, type, tags, importance) ==
  LET entry == [agent |-> a, type |-> type, tags |-> tags, importance |-> importance,
                timestamp |-> ctx.clock + 1]
      entries == TrimContext(Append(ctx.context_entries, entry))
  IN /\ ctx.calls[t].pc = "idle"
     /\ ops' = ops + 1
     /\ ctx' = [ctx EXCEPT
                  !.clock = @ + 1,
                  !.context_entries = entries,
                  !.latest[a] = entry,
                  !.calls[t] = [CIdle EXCEPT !.pc = "ctx_open", !.op = "add", !.agent = a,
                                             !.added = entry, !.snap = entries]]
     /\ UNCHANGED <<faults, workspace>>

\* _save_context, aiofiles.open(self.files['current'], 'w')
ContextOpen(t, ok) ==
  /\ ctx.calls[t].pc = "ctx_open"
  /\ Started
  /\ IF ok
     THEN /\ ctx' = [ctx EXCEPT !.files["current"] = Truncated, !.calls[t].pc = "ctx_write"]
          /\ UNCHANGED faults
     ELSE CtxRaised(t)
  /\ UNCHANGED <<ops, workspace>>

\* _save_context, f.write(json.dumps(context_data)); add_context then returns
\* the id, after _log_to_history for a conversation or findings entry.
ContextWrite(t, ok) ==
  LET call == ctx.calls[t]
  IN /\ call.pc = "ctx_write"
     /\ IF ok
        THEN /\ ctx' = [ctx EXCEPT
                          !.files["current"] = SavedContext(call.snap),
                          !.calls[t].snap = << >>,
                          !.calls[t].pc = IF call.added.type \in {"conversation", "findings"}
                                          THEN "history" ELSE "idle",
                          !.calls[t].result = IF call.added.type \in {"conversation", "findings"}
                                              THEN NoResult ELSE True]
             /\ UNCHANGED faults
        ELSE CtxRaised(t)
     /\ UNCHANGED <<ops, workspace>>

\* _log_to_history: a line is appended to conversation_history.jsonl.
LogToHistory(t, ok) ==
  /\ ctx.calls[t].pc = "history"
  /\ IF ok
     THEN /\ ctx' = [ctx EXCEPT !.calls[t].pc = "idle", !.calls[t].result = True]
          /\ UNCHANGED faults
     ELSE CtxRaised(t)
  /\ UNCHANGED <<ops, workspace>>

\* get_context_for_agent(a, types, max_entries): it has no suspension.
GetContextForAgent(t, a, types, max) ==
  /\ ctx.calls[t].pc = "idle"
  /\ ops' = ops + 1
  /\ ctx' = [ctx EXCEPT
               !.calls[t] = [CIdle EXCEPT
                               !.op = "get", !.agent = a, !.types = types, !.max = max,
                               !.at = ops + 1, !.result = True,
                               !.entries = RelevantEntries(ctx.context_entries, a, types, max)]]
  /\ UNCHANGED <<faults, workspace>>

(* --------------------------- specifications --------------------------- *)

EventSet == [kind : {"modified", "created"}, path : Paths, by : Agents \cup {External}]

\* A suspended call goes on; its I/O works (ok) or fails.
Resume(ok) ==
  \/ \E a \in Agents : AcquireLogged(a, ok)
  \/ \E a \in Agents : ReleaseLogged(a, ok)
  \/ \E a \in Agents : ReadIO(a, ok)
  \/ \E a \in Agents : ReadLogged(a, ok)
  \/ \E a \in Agents : WriteBackup(a, ok)
  \/ \E a \in Agents : WriteIO(a, ok)
  \/ \E a \in Agents : WriteMeta(a) /\ ok
  \/ \E a \in Agents : WriteLogged(a, ok)

\* The file system and its watcher.
Watch ==
  \/ \E p \in Notes : ExternalModify(p)
  \/ \E e \in EventSet : HandleFileChange(e)
  \/ \E e \in EventSet : HandleFileCreated(e)

\* Every call, every interleaving of the calls' segments, the watcher, and I/O
\* that may fail.
Next ==
  \/ \E a \in Agents, p \in Notes, w \in BOOLEAN : ops < MaxOps /\ AcquireFile(a, p, w)
  \/ \E a \in Agents, p \in Notes : ops < MaxOps /\ ReleaseFile(a, p)
  \/ \E a \in Agents, p \in Notes : ops < MaxOps /\ ReadFile(a, p)
  \/ \E a \in Agents, p \in Notes, c \in Contents, bk \in BOOLEAN :
        ops < MaxOps /\ WriteFile(a, p, c, bk)
  \/ \E ok \in BOOLEAN : Resume(ok)
  \/ Watch

Spec == Init /\ [][Next]_vars

\* The lock manager alone: acquire_file and release_file calls of all agents,
\* interleaved at their suspension points, with working I/O and a quiet file
\* system.
LockNext ==
  \/ \E a \in Agents, p \in Notes, w \in BOOLEAN : ops < MaxLockOps /\ AcquireFile(a, p, w)
  \/ \E a \in Agents, p \in Notes : ops < MaxLockOps /\ ReleaseFile(a, p)
  \/ \E a \in Agents : AcquireLogged(a, TRUE)
  \/ \E a \in Agents : ReleaseLogged(a, TRUE)

SpecLock == Init /\ [][LockNext]_vars

\* No call is in progress.
Quiet == \A t \in Tasks : proc[t].pc = "idle"

\* Calls made one after the other, each awaited before the next begins (as the
\* tests make them), with working I/O; the file system and the watcher go on
\* between the segments.
SeqNext ==
  \/ \E a \in Agents, p \in Notes, w \in BOOLEAN :
        ops < MaxSeqOps /\ Quiet /\ AcquireFile(a, p, w)
  \/ \E a \in Agents, p \in Notes : ops < MaxSeqOps /\ Quiet /\ ReleaseFile(a, p)
  \/ \E a \in Agents, p \in Notes : ops < MaxSeqOps /\ Quiet /\ ReadFile(a, p)
  \/ \E a \in Agents, p \in Notes, c \in Contents, bk \in BOOLEAN :
        ops < MaxSeqOps /\ Quiet /\ WriteFile(a, p, c, bk)
  \/ Resume(TRUE)
  \/ Watch

SpecSeq == Init /\ [][SeqNext]_vars

\* The lock manager on two paths whose files have the same name: acquire_file and
\* release_file calls of all agents on both, interleaved at their suspension
\* points, with working I/O and a quiet file system.
PathsNext ==
  \/ \E a \in Agents, p \in Paths, w \in BOOLEAN : ops < MaxPathOps /\ AcquireFile(a, p, w)
  \/ \E a \in Agents, p \in Paths : ops < MaxPathOps /\ ReleaseFile(a, p)
  \/ \E a \in Agents : AcquireLogged(a, TRUE)
  \/ \E a \in Agents : ReleaseLogged(a, TRUE)

SpecPaths == Init /\ [][PathsNext]_vars

\* Snapshots: acquire_file and release_file calls on both paths and saves of the
\* state, made one after the other, damage to the saved file, files that are
\* deleted, and fresh managers on the same workspace.
SnapNext ==
  \/ \E a \in Agents, p \in Paths, w \in BOOLEAN : ops < MaxSnapOps /\ Quiet /\ AcquireFile(a, p, w)
  \/ \E a \in Agents, p \in Paths : ops < MaxSnapOps /\ Quiet /\ ReleaseFile(a, p)
  \/ Quiet /\ SaveWorkspaceState
  \/ Quiet /\ Restart
  \/ \E a \in Agents : AcquireLogged(a, TRUE)
  \/ \E a \in Agents : ReleaseLogged(a, TRUE)
  \/ \E ok \in BOOLEAN : SaveIO(ok)
  \/ CorruptStateFile
  \/ \E p \in Paths : ExternalDelete(p)

SpecSnap == Init /\ [][SnapNext]_vars

\* A long working day on one file: read_file and write_file calls made one after
\* the other, with working I/O and a quiet watcher.
HistNext ==
  \/ \E a \in Agents, p \in Notes : ops < MaxHistOps /\ Quiet /\ ReadFile(a, p)
  \/ \E a \in Agents, p \in Notes, c \in Contents, bk \in BOOLEAN :
        ops < MaxHistOps /\ Quiet /\ WriteFile(a, p, c, bk)
  \/ Resume(TRUE)

SpecHist == Init /\ [][HistNext]_vars

\* Views: acquire_file and release_file calls on both paths and write_file calls,
\* made one after the other, the watcher, and get_agent_view calls of any agent
\* at any time, also while another call is suspended; working I/O.
ViewNext ==
  \/ \E a \in Agents, p \in Paths, w \in BOOLEAN :
        ops < MaxViewOps /\ Quiet /\ AcquireFile(a, p, w)
  \/ \E a \in Agents, p \in Paths : ops < MaxViewOps /\ Quiet /\ ReleaseFile(a, p)
  \/ \E a \in Agents, p \in Notes, c \in Contents :
        ops < MaxViewOps /\ Quiet /\ WriteFile(a, p, c, FALSE)
  \/ \E a \in Agents : ops < MaxViewOps /\ GetAgentView(a)
  \/ \E a \in Agents : ViewLogged(a)
  \/ \E a \in Agents : AcquireLogged(a, TRUE)
  \/ \E a \in Agents : ReleaseLogged(a, TRUE)
  \/ \E a \in Agents : WriteIO(a, TRUE)
  \/ \E a \in Agents : WriteMeta(a)
  \/ \E a \in Agents : WriteLogged(a, TRUE)
  \/ Watch

SpecView == Init /\ [][ViewNext]_vars

\* Long histories and snapshots: read_file calls on one file made one after the
\* other with working I/O, and saves of the state at any time.
TruncNext ==
  \/ \E a \in Agents, p \in Notes : ops < MaxTruncOps /\ Quiet /\ ReadFile(a, p)
  \/ \E a \in Agents : AcquireLogged(a, TRUE)
  \/ \E a \in Agents : ReadIO(a, TRUE)
  \/ \E a \in Agents : ReadLogged(a, TRUE)
  \/ \E a \in Agents : ReleaseLogged(a, TRUE)
  \/ SaveWorkspaceState
  \/ SaveIO(TRUE)

SpecTrunc == Init /\ [][TruncNext]_vars

\* Repeated acquisition: acquire_file, release_file and read_file calls on one
\* file made one after the other, with working I/O and a quiet watcher.
ReentNext ==
  \/ \E a \in Agents, p \in Notes, w \in BOOLEAN :
        ops < MaxReentOps /\ Quiet /\ AcquireFile(a, p, w)
  \/ \E a \in Agents, p \in Notes : ops < MaxReentOps /\ Quiet /\ ReleaseFile(a, p)
  \/ \E a \in Agents, p \in Notes : ops < MaxReentOps /\ Quiet /\ ReadFile(a, p)
  \/ \E a \in Agents : AcquireLogged(a, TRUE)
  \/ \E a \in Agents : ReadIO(a, TRUE)
  \/ \E a \in Agents : ReadLogged(a, TRUE)
  \/ \E a \in Agents : ReleaseLogged(a, TRUE)

SpecReent == Init /\ [][ReentNext]_vars

\* No task is in a call of the ContextManager.
CtxQuiet == \A t \in CtxTasks : ctx.calls[t].pc = "idle"

\* Questions between the agents: update_agent_memory, get_peer_questions and
\* get_shared_understanding called one after the other, the task _load_context
\* of the constructor running beside them, and I/O that may fail.
AskNext ==
  \/ \E t \in CtxTasks, x \in CtxAgents, q \in Questions \cup {None} :
        ops < MaxAskOps /\ CtxQuiet /\ UpdateAgentMemory(t, x, q)
  \/ \E t \in CtxTasks, y \in CtxAgents :
        ops < MaxAskOps /\ CtxQuiet /\ GetPeerQuestions(t, y)
  \/ \E t \in CtxTasks : ops < MaxAskOps /\ CtxQuiet /\ GetSharedUnderstanding(t)
  \/ \E t \in CtxTasks, ok \in BOOLEAN : MemOpen(t, ok)
  \/ \E t \in CtxTasks, ok \in BOOLEAN : MemWrite(t, ok)
  \/ \E t \in CtxTasks, ok \in BOOLEAN : SharedWrite(t, ok)
  \/ LoadCheck
  \/ LoadRead
  \/ LoadAssign

SpecAsk == CtxInit /\ [][AskNext]_vars

\* The inputs of add_context and get_context_for_agent.
EntryTypes == {"conversation", "task"}

TagSets == {{}, {"shared"}}

Importances == {5, 8}

TypeFilters == {{}, {"task"}}

Limits == {0, 1, DefaultMaxEntries}

\* The context entries: add_context and get_context_for_agent called one after
\* the other, the task _load_context of the constructor beside them, working I/O.
EntriesNext ==
  \/ \E t \in CtxTasks, a \in CtxAgents, type \in EntryTypes, tags \in TagSets,
         importance \in Importances :
        ops < MaxCtxOps /\ CtxQuiet /\ AddContext(t, a, type, tags, importance)
  \/ \E t \in CtxTasks, a \in CtxAgents, types \in TypeFilters, max \in Limits :
        ops < MaxCtxOps /\ CtxQuiet /\ GetContextForAgent(t, a, types, max)
  \/ \E t \in CtxTasks : ContextOpen(t, TRUE)
  \/ \E t \in CtxTasks : ContextWrite(t, TRUE)
  \/ \E t \in CtxTasks : LogToHistory(t, TRUE)
  \/ LoadCheck
  \/ LoadRead
  \/ LoadAssign

SpecEntries == EntriesInit /\ [][EntriesNext]_vars

(* ------------------------------ claims -------------------------------- *)

\* In this step acquire_file(p, a, .) returns True.
Grant(a, p) ==
  /\ proc[a].pc = "acq_log"
  /\ proc[a].path = p
  /\ proc'[a].pc # "acq_log"
  /\ proc'[a].result # Raised

\* In this step agent a, holding p, calls release_file(p, a).
ReleaseCalled(a, p) == held[a][p] # "none" /\ held'[a][p] = "none"

\* In this step agent a makes a call.
CallBy(a) == ops' = ops + 1 /\ proc'[a].id = ops'

\* In this step agent a calls acquire_file(p, a, write=True).
ExclusiveCall(a, p) ==
  CallBy(a) /\ proc'[a].op = "acquire" /\ proc'[a].path = p /\ proc'[a].write

\* In this step a call op(p, ...) of agent a is over.
Returns(a, op, p) ==
  /\ proc'[a].op = op
  /\ proc'[a].path = p
  /\ proc'[a].pc = "idle"
  /\ proc[a].pc # "idle" \/ CallBy(a)

\* C1: write exclusivity.  While agent a holds p for writing (its
\* acquire_file(p, a, write=True) returned True and it has not called release_file
\* since), no acquire_file(p, b, .) of another agent b returns True.
C1_WriteExclusivity ==
  [][\A a \in Agents, b \in Agents, p \in Paths :
       (a # b /\ held[a][p] = "write") => ~Grant(b, p)]_vars

\* C2: of the concurrent exclusive acquire_file calls of different agents on one
\* path (acquire_file and release_file calls only), one is turned away exactly when
\* another agent has won the lock and not released it: an exclusive acquire returns
\* True only while no other agent holds the path for writing, and returns False only
\* to an agent that lost to one that holds it or is about to be granted it.
C2_ConcurrentExclusive ==
  [][\A b \in Agents, p \in Paths :
       /\ (Grant(b, p) /\ proc[b].write)
            => \A a \in Agents \ {b} : held[a][p] # "write"
       /\ (ExclusiveCall(b, p) /\ proc'[b].result = False)
            => \E a \in Agents \ {b} :
                 /\ file_metadata[p].state = LOCKED_WRITE
                 /\ file_metadata[p].locked_by = a
                 /\ \/ held[a][p] = "write"
                    \/ proc[a].pc = "acq_log" /\ proc[a].path = p /\ proc[a].write]_vars

\* C2's case: one agent holds the path for writing and another agent's exclusive
\* acquire_file has just handed back False.
C2_Witness ==
  \E a \in Agents, b \in Agents, p \in Paths :
    /\ a # b
    /\ held[a][p] = "write"
    /\ proc[b].pc = "idle" /\ proc[b].op = "acquire" /\ proc[b].path = p
    /\ proc[b].write /\ proc[b].result = False

\* C3: readers exclude writers.  While an agent a holds p through a non-exclusive
\* acquire_file it has not released, no acquire_file(p, c, write=True) of another
\* agent c returns True.
C3_ReadersExcludeWriters ==
  [][\A a \in Agents, c \in Agents, p \in Paths :
       (a # c /\ held[a][p] = "read") => ~(Grant(c, p) /\ proc[c].write)]_vars

\* In this step the watcher's notification e is handled.
Handled(e) == e \in events /\ e \notin events'

\* C4: conflict detection.  A modified-notification for a tracked path, handled
\* while the record is LOCKED_WRITE and raised by a modification of somebody other
\* than the lock holder, leaves the record in state CONFLICT.
C4_ConflictDetected ==
  [][\A e \in EventSet :
       ( /\ Handled(e)
         /\ e.kind = "modified"
         /\ file_metadata[e.path].state = LOCKED_WRITE
         /\ e.by # file_metadata[e.path].locked_by )
       => file_metadata'[e.path].state = CONFLICT]_vars

\* C4's case: the only call so far is an acquire_file that locked the path for
\* writing (so nobody has written through the manager), the file was modified from
\* outside, the notification has been handled, and the record is in CONFLICT.
C4_Witness ==
  \E a \in Agents, p \in Paths :
    /\ ops = 1
    /\ proc[a].op = "acquire" /\ proc[a].path = p /\ proc[a].write
    /\ disk[p] = Foreign
    /\ \A e \in events : e.kind # "modified"
    /\ file_metadata[p].state = CONFLICT
    /\ file_metadata[p].locked_by = a

\* C5: a path flagged CONFLICT while agent a held it LOCKED_WRITE is still in
\* CONFLICT after a calls release_file(p, a).
C5_ReleaseKeepsConflict ==
  [][\A a \in Agents, p \in Paths :
       ( /\ file_metadata[p].state = CONFLICT
         /\ file_metadata[p].locked_by = a
         /\ ReleaseCalled(a, p) )
       => file_metadata'[p].state = CONFLICT]_vars

\* In this step some agent calls release_file(p, .) itself.
ReleaseFileCall(p) ==
  \E a \in Agents : CallBy(a) /\ proc'[a].op = "release" /\ proc'[a].path = p

\* C6: CONFLICT is terminal.  Once a record is in CONFLICT, no acquire_file,
\* read_file, write_file or watcher event changes its state.
C6_ConflictTerminal ==
  [][\A p \in Paths :
       (file_metadata[p].state = CONFLICT /\ ~ReleaseFileCall(p))
       => file_metadata'[p].state = CONFLICT]_vars

\* The record of p is not locked: untracked, or AVAILABLE.
NotLocked(p) == file_metadata[p] = NoRecord \/ file_metadata[p].state = AVAILABLE

\* C7: hand-over (acquire_file and release_file calls only).  An exclusive
\* acquire_file on an unlocked path returns True; an exclusive acquire_file of b
\* while a holds the path for writing returns False (a result, no exception); the
\* release_file of the holder leaves the path AVAILABLE with no holder, so that b's
\* next exclusive acquire_file returns True.
C7_HandOver ==
  [][\A a \in Agents, p \in Paths :
       /\ (ExclusiveCall(a, p) /\ NotLocked(p)) => proc'[a].pc = "acq_log"
       /\ (Returns(a, "acquire", p) /\ proc[a].pc = "acq_log") => proc'[a].result = True
       /\ \A b \in Agents \ {a} :
            (ExclusiveCall(b, p) /\ held[a][p] = "write")
            => (proc'[b].pc = "idle" /\ proc'[b].result = False)
       /\ (ReleaseCalled(a, p) /\ held[a][p] = "write")
            => (file_metadata'[p].state = AVAILABLE /\ file_metadata'[p].locked_by = NoAgent)]_vars

\* C7's case: the end of the scenario.  Four calls by two agents: a acquired and
\* released, b's second call was granted the path for writing after a's release.
C7_Witness ==
  \E a \in Agents, b \in Agents, p \in Paths :
    /\ a # b
    /\ ops = 4
    /\ \A c \in Agents \ {a, b} : proc[c] = Idle
    /\ log = << Event(p, a, "acquired", "write=True"), Event(p, a, "released", "-"),
                Event(p, b, "acquired", "write=True") >>
    /\ proc[a].op = "release" /\ proc[a].pc = "idle"
    /\ proc[b].op = "acquire" /\ proc[b].pc = "idle" /\ proc[b].result = True
    /\ held[b][p] = "write"
    /\ file_metadata[p].state = LOCKED_WRITE /\ file_metadata[p].locked_by = b

\* C8: no stale read after a write (calls made one after the other).  A
\* read_file(p, b) that returns when the last call about p other than read_file was
\* a write_file(p, c, a) of another agent that returned True, and the file was not
\* written since, returns exactly c, and p is tracked.
C8_ReadAfterWrite ==
  [][\A b \in Agents, p \in Paths :
       ( /\ Returns(b, "read", p)
         /\ lastWrite[p].returned
         /\ lastWrite[p].by # b )
       => ( /\ proc'[b].result = lastWrite[p].content
            /\ file_metadata'[p] # NoRecord )]_vars

\* C8's case: after a's write_file of "v1" returned True, the read_file of another
\* agent has returned "v1".
C8_Witness ==
  \E a \in Agents, b \in Agents, p \in Paths :
    /\ a # b
    /\ lastWrite[p] = [by |-> a, content |-> "v1", returned |-> TRUE]
    /\ proc[a].op = "write" /\ proc[a].result = True
    /\ proc[b].op = "read" /\ proc[b].path = p /\ proc[b].pc = "idle"
    /\ proc[b].id > proc[a].id
    /\ proc[b].result = "v1"

\* C9: read_file and write_file never strand a lock.  When a read_file(p, a) or
\* write_file(p, ., a) call is over, however it ended, the record of p is not left
\* LOCKED_READ or LOCKED_WRITE with locked_by = a.
C9_NoStrandedLock ==
  \A a \in Agents, p \in Paths :
    (proc[a].pc = "idle" /\ proc[a].op \in {"read", "write"} /\ proc[a].path = p)
    => ~( /\ file_metadata[p].locked_by = a
          /\ file_metadata[p].state \in {LOCKED_READ, LOCKED_WRITE} )

\* C10: an I/O failure during read_file or write_file reaches the caller as a
\* result (None, False), not as an exception, and the lock is released.
C10_FailureIsResult ==
  \A a \in Agents :
    (proc[a].pc = "idle" /\ proc[a].op \in {"read", "write"})
    => ( /\ proc[a].result # Raised
         /\ file_metadata[proc[a].path].locked_by # a )

\* In this step agent a calls acquire_file(p, a, .) and is handed False.
AcquireFailed(a, p) ==
  /\ CallBy(a)
  /\ proc'[a].op = "acquire" /\ proc'[a].path = p
  /\ proc'[a].result = False

\* C11: a failed acquire changes nothing.  Whenever acquire_file(p, a, .) returns
\* False, the set of tracked records, every record's state and locked_by, every
\* agent's current_files and last_active, and the audit log are as before the
\* call.
C11_FailedAcquireNoChange ==
  [][\A a \in Agents, p \in Paths :
       AcquireFailed(a, p)
       => /\ \A q \in Paths :
               /\ (file_metadata'[q] = NoRecord) = (file_metadata[q] = NoRecord)
               /\ file_metadata'[q].state = file_metadata[q].state
               /\ file_metadata'[q].locked_by = file_metadata[q].locked_by
          /\ agent_activity' = agent_activity
          /\ log' = log]_vars

\* In this step agent a calls release_file(p, a) itself.
ReleaseCall(a, p) == CallBy(a) /\ proc'[a].op = "release" /\ proc'[a].path = p

\* C12: release_file(p, a) when a is not the record's locked_by (another agent
\* holds it, nobody holds it, or p is untracked) is a no-op: the call is over at
\* once and the records, every agent's activity and the audit log are unchanged.
C12_ForeignReleaseNoOp ==
  [][\A a \in Agents, p \in Paths :
       (ReleaseCall(a, p) /\ (file_metadata[p] = NoRecord \/ file_metadata[p].locked_by # a))
       => /\ file_metadata' = file_metadata
          /\ agent_activity' = agent_activity
          /\ log' = log
          /\ proc'[a].pc = "idle"]_vars

\* C12's case: b holds the path for writing and a's release_file, the second and
\* last call, is over; b's acquisition is all the audit log has.
C12_Witness ==
  \E a \in Agents, b \in Agents, p \in Paths :
    /\ a # b
    /\ ops = 2
    /\ proc[a].op = "release" /\ proc[a].path = p /\ proc[a].pc = "idle" /\ proc[a].id = 2
    /\ file_metadata[p].state = LOCKED_WRITE /\ file_metadata[p].locked_by = b
    /\ p \in agent_activity[b].current_files
    /\ log = << Event(p, b, "acquired", "write=True") >>

\* How many times the event ev is in the event file.
Logged(ev) == Cardinality({i \in DOMAIN log : log[i] = ev})

\* C13: release_file(p, a) when the record is LOCKED_READ or LOCKED_WRITE with
\* locked_by = a (acquire_file and release_file calls only): the record becomes
\* AVAILABLE with no holder and p leaves a's current_files, and by the time the
\* call returns exactly one "released" event of (a, p) has been appended.
C13_ReleaseByHolder ==
  [][\A a \in Agents, p \in Paths :
       LET released == Event(p, a, "released", "-")
       IN /\ ( /\ ReleaseCall(a, p)
               /\ file_metadata[p].state \in {LOCKED_READ, LOCKED_WRITE}
               /\ file_metadata[p].locked_by = a )
             => ( /\ file_metadata'[p].state = AVAILABLE
                  /\ file_metadata'[p].locked_by = NoAgent
                  /\ p \notin agent_activity'[a].current_files
                  /\ proc'[a].pc = "rel_log"
                  /\ Logged(released)' = Logged(released) )
          /\ (proc[a].pc = "rel_log" /\ proc[a].path = p)
             => Logged(released)' = Logged(released) + (IF proc'[a].pc = "idle" THEN 1 ELSE 0)]_vars

\* C13's case: a acquired the path for writing and released it; both calls are
\* over, the record is AVAILABLE with no holder, a has no current file, and the
\* event file ends with the one "released" event.
C13_Witness ==
  \E a \in Agents, p \in Paths :
    /\ ops = 2
    /\ proc[a].op = "release" /\ proc[a].path = p /\ proc[a].pc = "idle"
    /\ log = << Event(p, a, "acquired", "write=True"), Event(p, a, "released", "-") >>
    /\ file_metadata[p].state = AVAILABLE /\ file_metadata[p].locked_by = NoAgent
    /\ agent_activity[a].current_files = {}

\* The events of agent a in the event file, oldest first.
EventsOf(a) == SelectSeq(log, LAMBDA ev : ev.agent = a)

\* The n most recent events of a sequence, newest first.
NewestFirst(evs, n) ==
  LET k == IF Len(evs) < n THEN Len(evs) ELSE n
  IN [i \in 1..k |-> evs[Len(evs) + 1 - i]]

\* C14: the audit query returns the newest events first: _get_recent_events(a,
\* limit) is the limit most recent events of agent a, in descending time order.
C14_NewestFirst ==
  \A a \in Agents, limit \in 1..MaxLimit :
    GetRecentEvents(a, limit) = NewestFirst(EventsOf(a), limit)

\* In this step a fresh manager is constructed on the workspace.
Restarted == (\A t \in Tasks : proc'[t] = Idle) /\ UNCHANGED <<disk, state_file>>

\* C15: snapshot round trip.  A fresh manager constructed when the state file is
\* a snapshot of the store as it is has, for every tracked path whose file is on
\* disk, a record with the same state and locked_by, and no other record.
C15_SnapshotRoundTrip ==
  [][(Restarted /\ state_file \in Snapshots(file_metadata))
     => \A p \in Paths :
          IF file_metadata[p] # NoRecord /\ disk[p] # Missing
          THEN /\ file_metadata'[p] # NoRecord
               /\ file_metadata'[p].state = file_metadata[p].state
               /\ file_metadata'[p].locked_by = file_metadata[p].locked_by
          ELSE file_metadata'[p] = NoRecord]_vars

\* C15's case: a fresh manager (no call made, no agent active) that has restored
\* a record locked for writing from a snapshot of two records, the other one
\* dropped because its file is gone.
C15_Witness ==
  \E p \in Paths, q \in Paths :
    /\ p # q
    /\ \A t \in Tasks : proc[t] = Idle
    /\ \A a \in Agents : agent_activity[a].current_files = {}
    /\ state_file.is = "json"
    /\ Len(state_file.files) = 2
    /\ disk[q] = Missing
    /\ file_metadata[q] = NoRecord
    /\ file_metadata[p].state = LOCKED_WRITE
    /\ file_metadata[p].locked_by \in Agents

\* Restoring the state file fails: json.load rejects it, or the entry of a file
\* that is on disk holds a value FileState, AgentType or fromisoformat rejects.
RestoreFails ==
  \/ state_file.is = "not json"
  \/ /\ state_file.is = "json"
     /\ \E i \in DOMAIN state_file.files :
          ~Valid(state_file.files[i]) /\ disk[state_file.files[i].path] # Missing

\* C16: corrupt snapshot fallback.  When restoring the state file fails at any
\* point, the fresh manager starts with an empty store: no record of the corrupt
\* file is kept.
C16_CorruptSnapshotEmpty ==
  [][(Restarted /\ RestoreFails) => \A p \in Paths : file_metadata'[p] = NoRecord]_vars

\* In this step some call has put an event about p into the history of p and is
\* on its way to append it to the event file.
Audited(p) ==
  \E a \in Agents :
    /\ proc'[a].pc \in {"acq_log", "rel_log", "write_log"}
    /\ proc'[a].pc # proc[a].pc
    /\ proc'[a].event.file = p

\* C17: every change of a record's state appends an audit event.  Every step that
\* changes the state of the record of p (the creation of the record included) is
\* a step of an operation that logs an event for p.
C17_TransitionsAudited ==
  [][\A p \in Paths :
       file_metadata'[p].state # file_metadata[p].state => Audited(p)]_vars

\* Nobody has asked for write access to p, so far or right now.
ReadersOnly(p) ==
  /\ \A i \in DOMAIN log : ~(log[i].file = p /\ log[i].details = "write=True")
  /\ \A a \in Agents : ~(proc[a].path = p /\ proc[a].write)

\* C18: last-reader release (acquire_file and release_file calls only).  While
\* some agent holds p through a non-exclusive acquire_file it has not released,
\* and nobody has asked for write access, p is LOCKED_READ: it becomes AVAILABLE
\* only on the release of the last outstanding reader.
C18_LastReaderRelease ==
  \A p \in Paths :
    (ReadersOnly(p) /\ \E a \in Agents : held[a][p] = "read")
    => file_metadata[p].state = LOCKED_READ

\* C19: the lock holder's own write never raises a conflict.  When the one call
\* made is a write_file(p, ., a) and nothing else has modified a file, the record
\* of p is not in state CONFLICT, during the call or after it.
C19_OwnWriteNoConflict ==
  \A a \in Agents :
    (ops = 1 /\ externals = 0 /\ proc[a].op = "write")
    => file_metadata[proc[a].path].state # CONFLICT

\* C20: history is bounded.  In every reachable state the history of every record
\* holds at most the ten events a snapshot keeps.
C20_HistoryBounded ==
  \A p \in Paths : Len(file_metadata[p].history) <= HistoryKept

\* C21: in every state another task can observe (the states between the segments
\* of the operations), a record in state AVAILABLE or MODIFIED has no locked_by.
C21_UnlockedHasNoHolder ==
  \A p \in Paths :
    file_metadata[p].state \in {AVAILABLE, MODIFIED} => file_metadata[p].locked_by = NoAgent

\* C22: after write_file(p, ., a) has returned True, with no other call and no
\* outside modification, the record of p is in state MODIFIED.
C22_WrittenIsModified ==
  \A a \in Agents :
    ( /\ ops = 1 /\ externals = 0
      /\ proc[a].op = "write" /\ proc[a].pc = "idle" /\ proc[a].result = True )
    => file_metadata[proc[a].path].state = MODIFIED

\* C23: agent activity mirrors lock ownership.  In every reachable state p is in
\* a's current_files if and only if the record of p has locked_by = a.
C23_ActivityMirrorsLocks ==
  \A a \in Agents, p \in Paths :
    (p \in agent_activity[a].current_files) <=> (file_metadata[p].locked_by = a)

\* C24: paths are independent.  An exclusive acquire_file on q is not handed
\* False unless q itself is LOCKED_WRITE by another agent, whatever goes on on
\* any other path.
C24_PathsIndependent ==
  [][\A b \in Agents, q \in Paths :
       (ExclusiveCall(b, q) /\ ~Denied(file_metadata[q], b)) => proc'[b].result # False]_vars

\* C25: a watcher modified-event for a path that has no record is not dropped:
\* once it is handled the path is tracked.
C25_ModifiedEventUpserts ==
  [][\A e \in EventSet :
       (Handled(e) /\ e.kind = "modified") => file_metadata'[e.path] # NoRecord]_vars

\* xs can be obtained from ys by leaving elements out, the order kept.
RECURSIVE IsSubseq(_, _)
IsSubseq(xs, ys) ==
  IF xs = << >> THEN TRUE
  ELSE IF ys = << >> THEN FALSE
  ELSE IF Head(xs) = Head(ys) THEN IsSubseq(Tail(xs), Tail(ys))
  ELSE IsSubseq(xs, Tail(ys))

\* The events of path p in the audit log, in the order of the file.
LogOf(p) == SelectSeq(log, LAMBDA ev : ev.file = p)

\* C26: per-path audit order.  The events of one path stand in the audit log in
\* the order in which their state changes were applied to the record (the order
\* of the record's history, which is appended to with the change), events not
\* yet written left out.
C26_AuditOrder ==
  \A p \in Paths : IsSubseq(LogOf(p), file_metadata[p].history)

\* C27: the audit log is append-only.  Every step leaves the log as it is or
\* adds one event at its end; what was written is never removed or changed.
C27_AppendOnly ==
  [][\/ log' = log
     \/ /\ Len(log') = Len(log) + 1
        /\ SubSeq(log', 1, Len(log)) = log]_vars

\* A write_file call has put its three events after an earlier event.
C27_Witness ==
  /\ Len(log) >= 4
  /\ \E i \in 2..Len(log) : log[i].action = "wrote"

\* C28: every acquire_file call ends with a boolean.  When a call of acquire_file
\* is over, what the caller was handed is True or False, never an exception.
C28_AcquireReturnsBoolean ==
  \A a \in Agents :
    (proc[a].pc = "idle" /\ proc[a].op = "acquire") => proc[a].result \in {True, False}

\* In this step agent a calls acquire_file(p, a, write=w).
AcquireCall(a, p, w) ==
  CallBy(a) /\ proc'[a].op = "acquire" /\ proc'[a].path = p /\ proc'[a].write = w

\* In this step the acquire_file(p, a, write=w) call of agent a returns.
AcquireReturn(a, p, w) ==
  /\ proc[a].pc = "acq_log" /\ proc[a].op = "acquire"
  /\ proc[a].path = p /\ proc[a].write = w
  /\ proc'[a].pc = "idle"

\* C29: postcondition of a successful acquire (acquire_file and release_file
\* calls of concurrent agents, working I/O).  An exclusive acquire that returns
\* True leaves the record LOCKED_WRITE with locked_by the caller.  A shared acquire
\* goes through whenever the record is not LOCKED_WRITE by another agent and makes
\* the record LOCKED_READ with locked_by the caller, unless the caller itself holds
\* LOCKED_WRITE, in which case state and locked_by stay.  In all cases p is in the
\* caller's current_files, the call returns True and exactly one "acquired" event
\* has been appended by the time it returns.
C29_AcquirePostcondition ==
  [][\A a \in Agents, p \in Paths :
       LET md == file_metadata[p]
           mdp == file_metadata'[p]
           acquired(w) == Event(p, a, "acquired", IF w THEN "write=True" ELSE "write=False")
       IN /\ (AcquireCall(a, p, TRUE) /\ proc'[a].result # False)
             => ( /\ proc'[a].pc = "acq_log"
                  /\ mdp.state = LOCKED_WRITE /\ mdp.locked_by = a
                  /\ p \in agent_activity'[a].current_files
                  /\ log' = log )
          /\ (AcquireCall(a, p, FALSE) /\ ~Denied(md, a))
             => ( /\ proc'[a].pc = "acq_log"
                  /\ IF md.state = LOCKED_WRITE
                     THEN mdp.state = LOCKED_WRITE /\ mdp.locked_by = a
                     ELSE mdp.state = LOCKED_READ /\ mdp.locked_by = a
                  /\ p \in agent_activity'[a].current_files
                  /\ log' = log )
          /\ \A w \in BOOLEAN :
               AcquireReturn(a, p, w)
               => ( /\ proc'[a].result = True
                    /\ w => (mdp.state = LOCKED_WRITE /\ mdp.locked_by = a)
                    /\ p \in agent_activity'[a].current_files
                    /\ Logged(acquired(w))' = Logged(acquired(w)) + 1
                    /\ Len(log') = Len(log) + 1 )]_vars

\* C29's case: a shared acquire of b has returned True while a holds the path
\* for reading, and the record is LOCKED_READ by b.
C29_Witness ==
  \E a, b \in Agents, p \in Paths :
    /\ a # b
    /\ ops = 2
    /\ proc[a].pc = "idle" /\ proc[b].pc = "idle"
    /\ log = << Event(p, a, "acquired", "write=False"), Event(p, b, "acquired", "write=False") >>
    /\ held[a][p] = "read" /\ held[b][p] = "read"
    /\ file_metadata[p].state = LOCKED_READ /\ file_metadata[p].locked_by = b
    /\ p \in agent_activity[b].current_files

\* C30: CONFLICT is entered only from LOCKED_WRITE.  Every step in which a record
\* becomes CONFLICT is the handling of a modified-event for that path while the
\* record was LOCKED_WRITE; a modified-event handled while the record is
\* AVAILABLE, LOCKED_READ, MODIFIED or CONFLICT leaves state and locked_by as they
\* were and moves last_modified on.
C30_ConflictOnlyFromWrite ==
  [][/\ \A p \in Paths :
          (file_metadata'[p].state = CONFLICT /\ file_metadata[p].state # CONFLICT)
          => ( /\ file_metadata[p].state = LOCKED_WRITE
               /\ \E e \in EventSet : Handled(e) /\ e.kind = "modified" /\ e.path = p )
     /\ \A e \in EventSet :
          ( /\ Handled(e)
            /\ e.kind = "modified"
            /\ file_metadata[e.path].state \in {AVAILABLE, LOCKED_READ, MODIFIED, CONFLICT} )
          => ( /\ file_metadata'[e.path].state = file_metadata[e.path].state
               /\ file_metadata'[e.path].locked_by = file_metadata[e.path].locked_by
               /\ file_metadata'[e.path].last_modified = Later(file_metadata[e.path].last_modified) )]_vars

\* C30's case: the only call so far is a shared acquire of a; the file has been
\* modified from outside and the modified-event has been handled, the record is
\* still LOCKED_READ by a with a later last_modified.
C30_Witness ==
  \E a \in Agents, p \in Paths :
    /\ ops = 1
    /\ proc[a].op = "acquire" /\ proc[a].path = p /\ ~proc[a].write
    /\ disk[p] = Foreign
    /\ \A e \in events : e.kind # "modified"
    /\ file_metadata[p].state = LOCKED_READ
    /\ file_metadata[p].locked_by = a
    /\ file_metadata[p].last_modified = Later(NewRecord.last_modified)

\* C31: watcher created-event.  Handled for an untracked path it adds a fresh
\* record, AVAILABLE with no locked_by; handled for a tracked path, in whatever
\* state, it leaves the record's state, locked_by and history as they were.
C31_CreatedEvent ==
  [][\A e \in EventSet :
       (Handled(e) /\ e.kind = "created")
       => IF file_metadata[e.path] = NoRecord
          THEN /\ file_metadata'[e.path].state = AVAILABLE
               /\ file_metadata'[e.path].locked_by = NoAgent
               /\ file_metadata'[e.path].history = << >>
          ELSE /\ file_metadata'[e.path].state = file_metadata[e.path].state
               /\ file_metadata'[e.path].locked_by = file_metadata[e.path].locked_by
               /\ file_metadata'[e.path].history = file_metadata[e.path].history]_vars

\* C31's case: no call has been made; a file that did not exist was created from
\* outside, its created-event has been handled and the path is tracked with a
\* fresh AVAILABLE record.
C31_Witness ==
  \E p \in Paths :
    /\ ops = 0
    /\ externals = 1
    /\ disk[p] = Foreign
    /\ \A e \in events : e.kind # "created"
    /\ file_metadata[p] = NewRecord

\* C32: the filesystem mutex follows the lock.  While agent a holds p for writing
\* (its exclusive acquire_file returned True and it has not called release_file)
\* the mutex of p is held for a, and the mutex is held for a only while the record
\* is LOCKED_WRITE by a.
C32_MutexFollowsLock ==
  \A a \in Agents, p \in Paths :
    /\ held[a][p] = "write" => mutex[LockName(p)] = a
    /\ (mutex[LockName(p)] = a /\ proc[a].path = p)
       => (file_metadata[p].state = LOCKED_WRITE /\ file_metadata[p].locked_by = a)

\* In this step agent a calls get_agent_view(a).
ViewCall(a) == CallBy(a) /\ proc'[a].op = "view"

\* The paths of a list of the view.
PathsOf(infos) == {i.path : i \in infos}

\* C33: get_agent_view(a) is a read-only classification.  locked_files holds
\* exactly the tracked paths whose locked_by is a, shared_files exactly the tracked
\* paths in state AVAILABLE that are not locked by a; no path is in both; a path
\* locked by another agent, or MODIFIED or CONFLICT and not locked by a, is in
\* neither; and the call changes no record and no agent's activity.
C33_AgentView ==
  [][\A a \in Agents :
       /\ ViewCall(a)
          => LET v == proc'[a].view
                 locked == PathsOf(v.locked_files)
                 shared == PathsOf(v.shared_files)
             IN /\ locked = {p \in Paths : file_metadata[p] # NoRecord /\ file_metadata[p].locked_by = a}
                /\ shared = {p \in Paths : /\ file_metadata[p].state = AVAILABLE
                                           /\ file_metadata[p].locked_by # a}
                /\ locked \cap shared = {}
                /\ \A p \in Paths :
                     ( \/ file_metadata[p].locked_by \notin {a, NoAgent}
                       \/ /\ file_metadata[p].state \in {MODIFIED, CONFLICT}
                          /\ file_metadata[p].locked_by # a )
                     => p \notin locked \cup shared
                /\ \A i \in v.locked_files \cup v.shared_files :
                     i = FileInfo(i.path, file_metadata[i.path])
                /\ file_metadata' = file_metadata
                /\ agent_activity' = agent_activity
       /\ (proc[a].pc = "view_log" /\ proc'[a].pc = "idle")
          => /\ proc'[a].view.locked_files = proc[a].view.locked_files
             /\ proc'[a].view.shared_files = proc[a].view.shared_files
             /\ file_metadata' = file_metadata
             /\ agent_activity' = agent_activity]_vars

\* C33's case: a view handed to agent a lists one path it holds as locked and
\* none as shared, while the other path is locked by another agent.
C33_Witness ==
  \E a, b \in Agents, p, q \in Paths :
    /\ a # b /\ p # q
    /\ proc[a].op = "view" /\ proc[a].pc = "idle" /\ proc[a].result = True
    /\ PathsOf(proc[a].view.locked_files) = {p}
    /\ proc[a].view.shared_files = {}
    /\ file_metadata[p].locked_by = a
    /\ file_metadata[q].locked_by = b

\* In this step the write_file call of agent a on p writes the new content.
Overwrites(a, p) ==
  /\ proc[a].pc = "write_io" /\ proc[a].op = "write" /\ proc[a].path = p
  /\ proc'[a].pc = "write_meta"

\* C34: backup before overwrite (calls made one after the other, working I/O).
\* When write_file(p, c, a, backup=True) overwrites an existing file, a copy of the
\* content it overwrites is in the history area before the new content is written
\* (no outside modification in between); history gains a copy only in the backup
\* step of a write_file with backup=True on an existing file, which leaves the file
\* as it is; and a write_file that is handed False because the lock was denied
\* changes neither history nor the file.
C34_BackupBeforeOverwrite ==
  [][/\ \A a \in Agents, p \in Paths :
          /\ (Overwrites(a, p) /\ proc[a].backup /\ disk[p] # Missing /\ externals = 0)
             => (<<LockName(p), disk[p]>> \in backups /\ backups' = backups)
          /\ (Overwrites(a, p) /\ (~proc[a].backup \/ disk[p] = Missing))
             => backups' = backups
          /\ (CallBy(a) /\ proc'[a].op = "write" /\ proc'[a].path = p /\ proc'[a].result = False)
             => (backups' = backups /\ disk' = disk)
     /\ backups' # backups
        => \E a \in Agents :
             /\ proc[a].pc = "write_backup" /\ proc[a].op = "write" /\ proc[a].backup
             /\ disk[proc[a].path] # Missing
             /\ backups' = backups \cup {<<LockName(proc[a].path), disk[proc[a].path]>>}
             /\ disk' = disk]_vars

\* C34's case: one write_file with backup=True on an existing file has returned
\* True; the old content is in the history area and the new content in the file.
C34_Witness ==
  \E a \in Agents, p \in Paths :
    /\ ops = 1
    /\ proc[a].op = "write" /\ proc[a].path = p /\ proc[a].pc = "idle" /\ proc[a].result = True
    /\ backups = {<<LockName(p), Original>>}
    /\ disk[p] \in Contents

\* In this step save_workspace_state builds the state it is going to write.
SaveCall == proc[Server].pc = "idle" /\ proc'[Server].pc = "save_io"

\* C35: snapshot history truncation.  For every record, the history that
\* save_workspace_state stores is the last min(10, n) events of the record's n
\* events in memory, in the same order, the most recent event included, and the
\* history in memory is left as it is, when the state is built and when it is
\* written.
C35_SnapshotHistory ==
  [][/\ SaveCall
        => /\ file_metadata' = file_metadata
           /\ {e.path : e \in {proc'[Server].blob.files[i] : i \in DOMAIN proc'[Server].blob.files}}
                = Tracked(file_metadata)
           /\ \A i \in DOMAIN proc'[Server].blob.files :
                LET e == proc'[Server].blob.files[i]
                    h == file_metadata[e.path].history
                    n == Len(h)
                    k == IF n < 10 THEN n ELSE 10
                IN /\ Len(e.history) = k
                   /\ \A j \in 1..k : e.history[j] = h[n - k + j]
                   /\ n > 0 => e.history[k] = h[n]
     /\ (proc[Server].pc = "save_io" /\ proc'[Server].pc = "idle")
        => (file_metadata' = file_metadata /\ state_file' = proc[Server].blob)]_vars

\* C35's case: the state file holds a snapshot taken when the record had more
\* than ten events: the entry holds ten, the last ten of the history in memory.
C35_Witness ==
  \E p \in Paths :
    LET h == file_metadata[p].history
    IN /\ state_file.is = "json"
       /\ Len(h) > HistoryKept
       /\ \E i \in DOMAIN state_file.files :
            /\ state_file.files[i].path = p
            /\ Len(state_file.files[i].history) = HistoryKept
            /\ state_file.files[i].history = SubSeq(h, Len(h) - HistoryKept + 1, Len(h))

\* The record of p is locked, for reading or writing, with locked_by = a.
LockedBy(a, p) ==
  file_metadata[p].state \in {LOCKED_READ, LOCKED_WRITE} /\ file_metadata[p].locked_by = a

\* In this step the read_file(p, a) call of agent a is over.
ReadOver(a, p) ==
  /\ proc[a].op = "read" /\ proc[a].path = p
  /\ proc[a].pc # "idle" /\ proc'[a].pc = "idle"

\* C36: locks are not counted per acquisition (calls made one after the other,
\* working I/O).  acquire_file by the agent the record is locked by goes through
\* and returns True; one release_file by that agent makes the record AVAILABLE
\* with no locked_by however often it acquired; a read_file(p, a) that got the
\* lock, also one called while a holds p LOCKED_WRITE, returns with p AVAILABLE
\* and no locked_by; and an exclusive acquire_file of any agent on an AVAILABLE
\* record goes through.
C36_NotCounted ==
  [][\A a \in Agents, p \in Paths :
       /\ (CallBy(a) /\ proc'[a].op = "acquire" /\ proc'[a].path = p /\ LockedBy(a, p))
          => (proc'[a].pc = "acq_log" /\ file_metadata'[p].locked_by = a)
       /\ (proc[a].pc = "acq_log" /\ proc[a].op = "acquire" /\ proc'[a].pc = "idle")
          => proc'[a].result = True
       /\ (ReleaseCall(a, p) /\ LockedBy(a, p))
          => (file_metadata'[p].state = AVAILABLE /\ file_metadata'[p].locked_by = NoAgent)
       /\ (CallBy(a) /\ proc'[a].op = "read" /\ proc'[a].path = p /\ LockedBy(a, p))
          => proc'[a].pc = "acq_log"
       /\ ReadOver(a, p)
          => (file_metadata'[p].state = AVAILABLE /\ file_metadata'[p].locked_by = NoAgent)
       /\ (ExclusiveCall(a, p) /\ file_metadata[p].state = AVAILABLE)
          => (proc'[a].pc = "acq_log" /\ file_metadata'[p].state = LOCKED_WRITE
              /\ file_metadata'[p].locked_by = a)]_vars

\* C36's case: a took p for writing and then called read_file(p, a), which is
\* over; b's exclusive acquire after that has returned True and the record is
\* LOCKED_WRITE by b, although a never called release_file.
C36_Witness ==
  \E a, b \in Agents, p \in Paths :
    /\ a # b
    /\ ops = 3
    /\ Len(log) >= 4
    /\ log[1] = Event(p, a, "acquired", "write=True")
    /\ log[2] = Event(p, a, "acquired", "write=False")
    /\ log[Len(log) - 1] = Event(p, a, "released", "-")
    /\ log[Len(log)] = Event(p, b, "acquired", "write=True")
    /\ proc[a].op = "read" /\ proc[a].pc = "idle"
    /\ proc[b].op = "acquire" /\ proc[b].pc = "idle" /\ proc[b].result = True
    /\ file_metadata[p].state = LOCKED_WRITE /\ file_metadata[p].locked_by = b

\* C37: in every reachable state a record in state LOCKED_READ or LOCKED_WRITE
\* has a locked_by agent, and a record in state AVAILABLE has none.
C37_StateAndHolder ==
  \A p \in Paths :
    /\ file_metadata[p].state \in {LOCKED_READ, LOCKED_WRITE} => file_metadata[p].locked_by \in Agents
    /\ file_metadata[p].state = AVAILABLE => file_metadata[p].locked_by = NoAgent

\* C37's case: two calls have been made and the second, a release_file by the
\* holder, has made the record AVAILABLE with no locked_by.
C37_Witness ==
  \E a \in Agents, p \in Paths :
    /\ ops = 2
    /\ proc[a].op = "release" /\ proc[a].path = p
    /\ Len(file_metadata[p].history) = 2
    /\ file_metadata[p].history[2] = Event(p, a, "released", "-")
    /\ file_metadata[p].state = AVAILABLE
    /\ file_metadata[p].locked_by = NoAgent

\* The questions a call of task t holds and has not handed to its caller yet.
InHand(t) ==
  IF ctx.calls[t].pc = "idle" THEN {}
  ELSE {ctx.calls[t].got[i] : i \in DOMAIN ctx.calls[t].got}
         \cup {ctx.calls[t].first[i] : i \in DOMAIN ctx.calls[t].first}

\* The questions waiting in the memory of agent x.
Queued(x) == {ctx.agent_memories[x][i] : i \in DOMAIN ctx.agent_memories[x]}

\* No question is handed to callers twice.
AtMostOnce == \A q \in Questions : ctx.handed[q] <= 1

\* A question that has been queued is waiting in an agent's memory, or in the
\* hands of the call that fetched it, or has been handed over.
NoneLost ==
  \A q \in ctx.asked :
    \/ ctx.handed[q] >= 1
    \/ \E x \in CtxAgents : q \in Queued(x)
    \/ \E t \in CtxTasks : q \in InHand(t)

\* Task t returns from a get_peer_questions call in this step.
PeerReturn(t) ==
  /\ ctx.calls[t].op = "peer"
  /\ ctx.calls[t].pc # "idle"
  /\ ctx'.calls[t].pc = "idle"

\* When get_peer_questions returns, the queue it fetched from is empty.
EmptyAfter ==
  \A t \in CtxTasks : PeerReturn(t) => ctx'.agent_memories[ctx.calls[t].agent] = << >>

\* C38: peer questions are delivered at most once, and once.  No question is
\* handed to callers twice; a queued question is returned by the first later
\* fetch (it is never dropped without having been handed over); and when a
\* get_peer_questions call returns, the queue it fetched from is empty.
C38_PeerQuestionsOnce == [](AtMostOnce /\ NoneLost) /\ [][EmptyAfter]_vars

\* The entries of a list.
EntrySet(es) == {es[i] : i \in DOMAIN es}

\* Task t returns from get_context_for_agent in this step.
GetReturn(t) == ctx'.calls[t].op = "get" /\ ctx'.calls[t].at = ops'

\* What get_context_for_agent has returned to task t: only entries of the agent
\* or tagged 'shared', of a requested type when types were given, at most
\* max_entries of them, by importance descending then timestamp descending.
Returned(call) ==
  /\ \A e \in EntrySet(call.entries) :
       /\ e.agent = call.agent \/ "shared" \in e.tags
       /\ call.types # {} => e.type \in call.types
  /\ Len(call.entries) <= call.max
  /\ \A i, j \in DOMAIN call.entries :
       i < j => ~Precedes(<< call.entries[j].importance, call.entries[j].timestamp >>,
                          << call.entries[i].importance, call.entries[i].timestamp >>)

\* The entry the agent added last, if the list still holds it, is in what a
\* get_context_for_agent(a) without further arguments has returned.
LatestReturned(c, call) ==
  (/\ call.types = {}
   /\ call.max = DefaultMaxEntries
   /\ c.latest[call.agent] # NoEntry
   /\ c.latest[call.agent] \in EntrySet(c.context_entries))
  => c.latest[call.agent] \in EntrySet(call.entries)

\* C39: get_context_for_agent(a, types, max_entries) returns only entries
\* authored by a or tagged 'shared' (of a requested type when types is given), at
\* most max_entries of them, ordered by importance descending then timestamp
\* descending; and the entry a added last with add_context is returned by the
\* next get_context_for_agent(a) unless trimming removed it.
C39_ContextForAgent ==
  [][\A t \in CtxTasks :
       GetReturn(t) => Returned(ctx'.calls[t]) /\ LatestReturned(ctx', ctx'.calls[t])]_vars

====
